---- MODULE Spec2Model ----
(***************************************************************************)
(* Model of the spreadsheet-backed contact store of api_regex_excel:       *)
(*   - ContactoRepository            (repositories/contacto_repository.go, *)
(*                                    lines 1-441, "basic")                *)
(*   - SimpleOptimizedContactoRepository (same file, lines 713-1270,       *)
(*                                    "optimized": key/email index, cache) *)
(* A Go string is a sequence of one-character strings; a Go slice is a     *)
(* backing array in the heap plus a length; a *Contacto is an (array,      *)
(* position) pair.                                                         *)
(***************************************************************************)
EXTENDS Integers, Sequences, FiniteSets, TLC

\* ------------------------------------------------------------------ strings

Digits == <<"0", "1", "2", "3", "4", "5", "6", "7", "8", "9">>
UpperLetters == <<"A", "B", "C", "D", "E", "F", "G", "H", "I", "J", "K", "L", "M",
                  "N", "O", "P", "Q", "R", "S", "T", "U", "V", "W", "X", "Y", "Z">>
LowerLetters == <<"a", "b", "c", "d", "e", "f", "g", "h", "i", "j", "k", "l", "m",
                  "n", "o", "p", "q", "r", "s", "t", "u", "v", "w", "x", "y", "z">>

IsDigit(c) == \E i \in 1..10 : Digits[i] = c
DigitVal(c) == (CHOOSE i \in 1..10 : Digits[i] = c) - 1
IsSpace(c) == c \in {" ", "\t", "\n", "\r"}

\* unicode.ToLower on one character (ASCII letters)
LowerChar(c) ==
  IF \E i \in 1..26 : UpperLetters[i] = c
    THEN LowerLetters[CHOOSE i \in 1..26 : UpperLetters[i] = c]
    ELSE c

\* strings.ToLower
ToLower(s) == [i \in 1..Len(s) |-> LowerChar(s[i])]

\* strings.Contains
Contains(s, sub) ==
  \E i \in 0..(Len(s) - Len(sub)) : SubSeq(s, i + 1, i + Len(sub)) = sub

RECURSIVE TrimLeft(_)
TrimLeft(s) == IF s # <<>> /\ IsSpace(Head(s)) THEN TrimLeft(Tail(s)) ELSE s

RECURSIVE TrimRight(_)
TrimRight(s) ==
  IF s # <<>> /\ IsSpace(s[Len(s)]) THEN TrimRight(SubSeq(s, 1, Len(s) - 1)) ELSE s

\* strings.TrimSpace
TrimSpace(s) == TrimRight(TrimLeft(s))

RECURSIVE DigitsValue(_)
DigitsValue(s) ==
  IF s = <<>> THEN 0 ELSE 10 * DigitsValue(SubSeq(s, 1, Len(s) - 1)) + DigitVal(s[Len(s)])

\* strconv.Atoi: an optional sign, then one or more decimal digits
\* (strings short enough that the value fits in an int)
Atoi(s) ==
  LET signed == s # <<>> /\ Head(s) \in {"+", "-"}
      body   == IF signed THEN Tail(s) ELSE s
      ok     == body # <<>> /\ \A i \in 1..Len(body) : IsDigit(body[i])
  IN  [err |-> ~ok,
       val |-> IF ~ok THEN 0
               ELSE IF signed /\ Head(s) = "-" THEN 0 - DigitsValue(body)
               ELSE DigitsValue(body)]

RECURSIVE NatDigits(_)
NatDigits(n) ==
  IF n < 10 THEN <<Digits[n + 1]>> ELSE NatDigits(n \div 10) \o <<Digits[(n % 10) + 1]>>

\* strconv.Itoa
Itoa(n) == IF n < 0 THEN <<"-">> \o NatDigits(0 - n) ELSE NatDigits(n)

\* ------------------------------------------------------------------ records

\* models.Contacto
Contacto(clave, nombre, correo, telefono) ==
  [ClaveCliente |-> clave, Nombre |-> nombre, Correo |-> correo,
   TelefonoContacto |-> telefono]

\* the zero value of models.Contacto (an unused slot of a backing array)
ZeroContacto == Contacto(0, <<>>, <<>>, <<>>)

\* a RowData whose ErrorCount is a flag, not a count
RowDataCountsOnce(cells, hasErrors, errorCount) ==
  [ClaveCliente |-> cells[1], Nombre |-> cells[2], Correo |-> cells[3],
   TelefonoContacto |-> cells[4], HasErrors |-> hasErrors,
   ErrorCount |-> IF hasErrors THEN 1 ELSE 0]

\* models.RowData
RowData(cells, hasErrors, errorCount) ==
  [ClaveCliente |-> cells[1], Nombre |-> cells[2], Correo |-> cells[3],
   TelefonoContacto |-> cells[4], HasErrors |-> hasErrors, ErrorCount |-> errorCount]

\* models.RowError. Column, Field and Error are labels; Value is the offending
\* cell; RowData is <<>> for a nil pointer and <<d>> for a pointer to the row's
\* RowData variable, shown with that variable's final value.
RowError(row, column, field, value, error, rowData) ==
  [Row |-> row, Column |-> column, Field |-> field, Value |-> value,
   Error |-> error, RowData |-> rowData]

\* <<e>> when cond holds, else nothing: one conditional append
Opt(cond, e) == IF cond THEN <<e>> ELSE <<>>

\* ------------------------------------------------------------------ the file

\* the header row written by saveToExcel
HeaderRow ==
  << <<"C","l","a","v","e","C","l","i","e","n","t","e">>,
     <<"N","o","m","b","r","e">>,
     <<"C","o","r","r","e","o">>,
     <<"T","e","l","e","f","o","n","o","C","o","n","t","a","c","t","o">> >>

\* ------------------------------------------------- ContactoRepository: load

\* One data row of ContactoRepository.loadFromExcel: the RowErrors it appends,
\* given the row's cells, its row number and the contacts accepted so far.
BasicRowErrors(row, currentRow, accepted) ==
  IF Len(row) < 4
  THEN
    LET hasContent == \E i \in 1..Len(row) : TrimSpace(row[i]) # <<>>
    IN  Opt(hasContent,
            RowError(currentRow, "general", "estructura", <<>>,
                     "La fila debe contener exactamente 4 columnas", <<>>))
  ELSE
    LET claveStr == TrimSpace(row[1])
        nombre   == TrimSpace(row[2])
        correo   == TrimSpace(row[3])
        telefono == TrimSpace(row[4])
        rowErrors ==
             Opt(claveStr = <<>>,
                 RowError(currentRow, "A", "claveCliente", claveStr,
                          "La clave cliente no puede estar vacia", <<>>))
          \o Opt(nombre = <<>>,
                 RowError(currentRow, "B", "nombre", nombre,
                          "El nombre no puede estar vacio", <<>>))
          \o Opt(correo = <<>>,
                 RowError(currentRow, "C", "correo", correo,
                          "El correo no puede estar vacio", <<>>))
          \o Opt(telefono = <<>>,
                 RowError(currentRow, "D", "telefonoContacto", telefono,
                          "El telefono no puede estar vacio", <<>>))
        parsed == Atoi(claveStr)
        clave  == parsed.val
    IN  IF rowErrors # <<>> THEN rowErrors
        ELSE IF parsed.err
        THEN <<RowError(currentRow, "A", "claveCliente", claveStr,
                        "La clave cliente debe ser un numero entero valido", <<>>)>>
        ELSE
             Opt(clave <= 0,
                 RowError(currentRow, "A", "claveCliente", claveStr,
                          "La clave cliente debe ser un numero mayor a 0", <<>>))
          \o Opt(Len(telefono) # 10,
                 RowError(currentRow, "D", "telefonoContacto", telefono,
                          "El telefono debe tener exactamente 10 digitos", <<>>))
          \o Opt(\E i \in 1..Len(telefono) : ~IsDigit(telefono[i]),
                 RowError(currentRow, "D", "telefonoContacto", telefono,
                          "El telefono debe contener solo numeros", <<>>))
          \o Opt(~Contains(correo, <<"@">>),
                 RowError(currentRow, "C", "correo", correo,
                          "El correo debe contener @", <<>>))
          \o Opt(\E j \in 1..Len(accepted) : accepted[j].ClaveCliente = clave,
                 RowError(currentRow, "A", "claveCliente", claveStr,
                          "La clave cliente ya existe en el archivo", <<>>))

\* the Contacto a complete row stands for (tempContacto)
BasicRowContacto(row) ==
  Contacto(Atoi(TrimSpace(row[1])).val, TrimSpace(row[2]), TrimSpace(row[3]),
           TrimSpace(row[4]))

\* the state of a load in progress
LoadState(cs, errs, invalid) ==
  [contactos |-> cs, loadErrors |-> errs, invalidRowsData |-> invalid]

\* The ForEachRow callback of ContactoRepository.loadFromExcel on row i
\* (rows[1] is the header: rowIndex = i - 1, currentRow = rowIndex + 1).
BasicRowStep(rows, i, st) ==
  IF i = 1 THEN st
  ELSE
    LET currentRow == i
        errs       == st.loadErrors \o BasicRowErrors(rows[i], currentRow, st.contactos)
        hasErrors  == \E e \in 1..Len(errs) : errs[e].Row = currentRow
    IN  LoadState(IF Len(rows[i]) >= 4 /\ ~hasErrors
                    THEN Append(st.contactos, BasicRowContacto(rows[i]))
                    ELSE st.contactos,
                  errs, <<>>)

\* ---------------------------------- SimpleOptimizedContactoRepository: load

\* the first four cells of a row, trimmed; missing cells are ""
OptCells(row) == [j \in 1..4 |-> IF j <= Len(row) THEN TrimSpace(row[j]) ELSE <<>>]

\* One data row of SimpleOptimizedContactoRepository.loadFromExcel:
\* the RowErrors, the RawRowSnapshots and the Contactos it appends.
OptRow(row, currentRow) ==
  LET cells == OptCells(row)
  IN
  IF Len(row) < 4
  THEN
    LET rowData == RowData(cells, TRUE, 1)
    IN  [errors  |-> <<RowError(currentRow, "general", "estructura", <<>>,
                                "Fila incompleta", <<rowData>>)>>,
         invalid |-> <<rowData>>,
         valid   |-> <<>>]
  ELSE
    LET claveStr == cells[1]
        nombre   == cells[2]
        correo   == cells[3]
        telefono == cells[4]
        parsed   == Atoi(claveStr)
        eEmpty   == claveStr = <<>> \/ nombre = <<>> \/ correo = <<>> \/ telefono = <<>>
        eClave   == claveStr # <<>> /\ (parsed.err \/ parsed.val <= 0)
        eTel     == telefono # <<>> /\ Len(telefono) # 10
        eCorreo  == correo # <<>> /\ ~Contains(correo, <<"@">>)
        clave    == IF claveStr # <<>> /\ ~eClave THEN parsed.val ELSE 0
        count    == (IF eEmpty THEN 1 ELSE 0) + (IF eClave THEN 1 ELSE 0)
                    + (IF eTel THEN 1 ELSE 0) + (IF eCorreo THEN 1 ELSE 0)
        rowData  == RowData(cells, count > 0, count)
        rowErrors ==
             Opt(eEmpty, RowError(currentRow, "", "general", <<>>,
                                  "Campos vacios", <<rowData>>))
          \o Opt(eClave, RowError(currentRow, "", "claveCliente", <<>>,
                                  "Clave invalida", <<rowData>>))
          \o Opt(eTel, RowError(currentRow, "", "telefonoContacto", <<>>,
                                "Telefono debe tener 10 digitos", <<rowData>>))
          \o Opt(eCorreo, RowError(currentRow, "", "correo", <<>>,
                                   "Correo sin @", <<rowData>>))
    IN  [errors  |-> rowErrors,
         invalid |-> Opt(rowData.HasErrors, rowData),
         valid   |-> Opt(~rowData.HasErrors,
                         Contacto(clave, nombre, correo, telefono))]

\* a callback that numbers the rows from the first row below the header
OptRowStepHeaderExcluded(rows, i, st) ==
  IF i = 1 THEN st
  ELSE LET r == OptRow(rows[i], i - 1)
       IN  LoadState(st.contactos \o r.valid, st.loadErrors \o r.errors,
                     st.invalidRowsData \o r.invalid)

\* The ForEachRow callback of SimpleOptimizedContactoRepository.loadFromExcel
OptRowStep(rows, i, st) ==
  IF i = 1 THEN st
  ELSE LET r == OptRow(rows[i], i)
       IN  LoadState(st.contactos \o r.valid, st.loadErrors \o r.errors,
                     st.invalidRowsData \o r.invalid)

\* sheet.ForEachRow over rows lo..hi, in order, from the state st
\* (the range is halved, and the first half is computed before the second
\* is entered, so that long sheets need no deep recursion)
RECURSIVE ForEachRow(_, _, _, _, _)
ForEachRow(v, rows, lo, hi, st) ==
  IF lo > hi THEN st
  ELSE IF lo = hi
  THEN IF v = "basic" THEN BasicRowStep(rows, lo, st) ELSE OptRowStep(rows, lo, st)
  ELSE LET mid == (lo + hi) \div 2
           left == ForEachRow(v, rows, lo, mid, st)
       IN  IF Len(left.contactos) >= 0 THEN ForEachRow(v, rows, mid + 1, hi, left)
           ELSE st

\* what a load of the sheet's rows produces, per repository variant
ParseRows(v, rows) == ForEachRow(v, rows, 1, Len(rows), LoadState(<<>>, <<>>, <<>>))

\* ------------------------------------------------------------------ bounds

\* data rows of a sheet
MaxRows == 2
\* spare capacity a reallocating append may leave (Go fixes none)
MaxSlack == 1
\* Create is explored while the collection holds fewer records than this
MaxLen == 3
\* file operations (open, save) that fail in one run
MaxFaults == 1

\* The three size limits of the optimized repository, scaled down so that
\* collections on both sides of each fit the model:
\* len(contactos) > 100 builds the indices
IndexThreshold == 1
\* results of fewer than 100 records are cached
CacheResultLimit == 2
\* cacheMaxSize: 500
CacheMaxSize == 1

\* ------------------------------------------------------------------ state

VARIABLES
  variant,             \* "basic": ContactoRepository, "optimized": SimpleOptimized...
  excelFile,           \* the file: [rows], rows of cells, rows[1] the header
  heap,                \* backing arrays of []models.Contacto: id -> slots (Len = cap)
  contactos,           \* the slice r.contactos: [arr, len]
  loadErrors,          \* r.loadErrors
  invalidRowsData,     \* r.invalidRowsData
  indiceClaveCliente,  \* [nil, map]: key -> pointer [arr, idx]
  indiceCorreo,        \* [nil, map]: lowercased email -> pointer [arr, idx]
  searchCache,         \* cache key -> cached result
  faults,              \* file operations that have failed so far
  last,                \* the last call: [op, key, err, saveCalled]
  pending              \* the read in progress in another goroutine, if any

vars == <<variant, excelFile, heap, contactos, loadErrors, invalidRowsData,
          indiceClaveCliente, indiceCorreo, searchCache, faults, last, pending>>

\* the records of the collection, in order: r.contactos[0:len]
Records == SubSeq(heap[contactos.arr], 1, contactos.len)

Cap(h, a) == Len(h[a])

NilMap == [nil |-> TRUE, map |-> <<>>]

Deref(h, ptr) == h[ptr.arr][ptr.idx]

\* the pointers held by the two indices
Pointers(ik, ic) ==
  {ik.map[k] : k \in DOMAIN ik.map} \cup {ic.map[e] : e \in DOMAIN ic.map}

\* the slice header a scan in progress has taken from r.contactos
Held(pd) == IF pd # <<>> /\ pd[1].op = "scan" THEN {pd[1].slice} ELSE {}

\* the arrays still referenced by the slice, by an index entry or by a scan
Live(c, ik, ic, held) ==
  {c.arr} \cup {p.arr : p \in Pointers(ik, ic)} \cup {s.arr : s \in held}

\* Garbage collection. Unreferenced arrays disappear; a slot past the end of
\* the slice that no index entry points to and no scan in progress covers can
\* never be read again before it is overwritten, and is shown as the zero
\* value. The arrays are numbered 0, 1, ... in order of allocation. Gives the
\* heap, the slice, the indices and the headers held.
CollectHeld(h, c, ik, ic, held) ==
  LET live == Live(c, ik, ic, held)
      rank(a) == Cardinality({x \in live : x < a})
      reach(a, j) == (a = c.arr /\ j <= c.len)
                       \/ [arr |-> a, idx |-> j] \in Pointers(ik, ic)
                       \/ \E s \in held : a = s.arr /\ j <= s.len
      move(p) == [arr |-> rank(p.arr), idx |-> p.idx]
  IN  [heap |-> [n \in 0..(Cardinality(live) - 1) |->
                   LET a == CHOOSE x \in live : rank(x) = n
                   IN  [j \in 1..Len(h[a]) |->
                          IF reach(a, j) THEN h[a][j] ELSE ZeroContacto]],
       slice |-> [arr |-> rank(c.arr), len |-> c.len],
       ik |-> [nil |-> ik.nil, map |-> [k \in DOMAIN ik.map |-> move(ik.map[k])]],
       ic |-> [nil |-> ic.nil, map |-> [e \in DOMAIN ic.map |-> move(ic.map[e])]],
       held |-> {[arr |-> rank(s.arr), len |-> s.len] : s \in held}]

Collect(h, c, ik, ic) == CollectHeld(h, c, ik, ic, Held(pending))

\* CreateContacto requests that have passed the service's checks and have
\* not yet called repo.Create wait in pending, as <<[op |-> "create",
\* cs |-> the records to create]>>; this is pending once the first has called
Called(pd) ==
  IF Len(pd[1].cs) = 1 THEN <<>> ELSE <<[pd[1] EXCEPT !.cs = Tail(pd[1].cs)]>>

\* the read in progress once the arrays are renumbered
Moved(pd, held) ==
  IF pd # <<>> /\ pd[1].op = "create" THEN Called(pd)
  ELSE IF held = {} THEN pd
  ELSE <<[pd[1] EXCEPT !.slice = CHOOSE s \in held : TRUE]>>

\* the state after a call that left the heap h, the slice c and the indices
Commit(g) ==
  /\ heap' = g.heap
  /\ contactos' = g.slice
  /\ indiceClaveCliente' = g.ik
  /\ indiceCorreo' = g.ic
  /\ pending' = Moved(pending, g.held)

\* a fresh array identifier
NewArr(h) == Cardinality(DOMAIN h)

Result(op, key, err, saveCalled) ==
  [op |-> op, key |-> key, err |-> err, saveCalled |-> saveCalled]

\* -------------------------------------------------------------- Go slices

\* append(s, c): in place when len < cap, else into a new array whose spare
\* capacity (slack) the runtime chooses. Gives the new heap and slice.
AppendOne(h, s, c, slack) ==
  IF s.len < Cap(h, s.arr)
  THEN [heap |-> [h EXCEPT ![s.arr][s.len + 1] = c],
        slice |-> [arr |-> s.arr, len |-> s.len + 1]]
  ELSE
    LET b == NewArr(h)
        slots == [i \in 1..(s.len + 1 + slack) |->
                    IF i <= s.len THEN h[s.arr][i]
                    ELSE IF i = s.len + 1 THEN c ELSE ZeroContacto]
    IN  [heap |-> [a \in DOMAIN h \cup {b} |-> IF a = b THEN slots ELSE h[a]],
         slice |-> [arr |-> b, len |-> s.len + 1]]

\* s = s[:0] followed by one append per record of cs: the records overwrite
\* the old array while they fit; when they do not, the old array is left full
\* and the slice ends in a new array with the spare capacity the runtime chose
AppendAll(h, s, cs, slack) ==
  LET n == Len(cs)
      c == Cap(h, s.arr)
  IN
  IF n <= c
  THEN [heap |-> [h EXCEPT ![s.arr] =
                    [j \in 1..c |-> IF j <= n THEN cs[j] ELSE h[s.arr][j]]],
        slice |-> [arr |-> s.arr, len |-> n]]
  ELSE
    LET b == NewArr(h)
        slots == [j \in 1..(n + slack) |-> IF j <= n THEN cs[j] ELSE ZeroContacto]
    IN  [heap |-> [a \in DOMAIN h \cup {b} |->
                     IF a = b THEN slots
                     ELSE IF a = s.arr THEN SubSeq(cs, 1, c) ELSE h[a]],
         slice |-> [arr |-> b, len |-> n]]

\* a removal that moves the last record into the freed position
RemoveAtBySwap(h, s, i) ==
  [heap |-> [h EXCEPT ![s.arr] =
               [j \in 1..Len(h[s.arr]) |->
                  IF j = i THEN h[s.arr][s.len] ELSE h[s.arr][j]]],
   slice |-> [arr |-> s.arr, len |-> s.len - 1]]

\* append(s[:i], s[i+1:]...) for the 1-based position i: the tail moves down
\* one slot in place, the last slot keeps its old value
RemoveAt(h, s, i) ==
  [heap |-> [h EXCEPT ![s.arr] =
               [j \in 1..Len(h[s.arr]) |->
                  IF j >= i /\ j < s.len THEN h[s.arr][j + 1] ELSE h[s.arr][j]]],
   slice |-> [arr |-> s.arr, len |-> s.len - 1]]

\* ------------------------------------------------------------------ save

\* the rows saveToExcel writes: the header, then one row per Contacto
SaveRows(cs) ==
  <<HeaderRow>> \o
  [i \in 1..Len(cs) |-> <<Itoa(cs[i].ClaveCliente), cs[i].Nombre, cs[i].Correo,
                          cs[i].TelefonoContacto>>]

\* a saveToExcel that puts the write off
saveToExcelDeferred(file, cs, saveOk) == file

\* a saveToExcel that opens the workbook and adds its rows below the others
saveToExcelKeepingRows(file, cs, saveOk) ==
  IF saveOk THEN [rows |-> file.rows \o Tail(SaveRows(cs))] ELSE file

\* saveToExcel: the file after the call
saveToExcel(file, cs, saveOk) ==
  IF saveOk THEN [rows |-> SaveRows(cs)] ELSE file

SaveErr(saveOk) == IF saveOk THEN "nil" ELSE "SaveError"

\* the call of saveToExcel that ends Create, Update and Delete, and its result
Save(op, key, cs, saveOk) ==
  /\ saveOk \/ faults < MaxFaults
  /\ excelFile' = saveToExcel(excelFile, cs, saveOk)
  /\ faults' = IF saveOk THEN faults ELSE faults + 1
  /\ last' = Result(op, key, SaveErr(saveOk), TRUE)

\* a call that returns before it changes anything
Refuse(op, key, err) ==
  /\ last' = Result(op, key, err, FALSE)
  /\ UNCHANGED <<variant, excelFile, heap, contactos, loadErrors, invalidRowsData,
                 indiceClaveCliente, indiceCorreo, searchCache, faults, pending>>


\* ------------------------------------------------------------------ indices

\* buildBasicIndices: both maps rebuilt from the slice; a later record with
\* the same key or email replaces the earlier entry
KeyIndexOf(h, s) ==
  LET cs == SubSeq(h[s.arr], 1, s.len)
      ks == {cs[i].ClaveCliente : i \in 1..s.len}
      lastAt(k) == CHOOSE i \in 1..s.len :
                     /\ cs[i].ClaveCliente = k
                     /\ \A j \in (i + 1)..s.len : cs[j].ClaveCliente # k
  IN  [nil |-> FALSE, map |-> [k \in ks |-> [arr |-> s.arr, idx |-> lastAt(k)]]]

EmailIndexOf(h, s) ==
  LET cs == SubSeq(h[s.arr], 1, s.len)
      es == {ToLower(cs[i].Correo) : i \in 1..s.len}
      lastAt(e) == CHOOSE i \in 1..s.len :
                     /\ ToLower(cs[i].Correo) = e
                     /\ \A j \in (i + 1)..s.len : ToLower(cs[j].Correo) # e
  IN  [nil |-> FALSE, map |-> [e \in es |-> [arr |-> s.arr, idx |-> lastAt(e)]]]

\* m[k] = ptr on a Go map
MapPut(m, k, ptr) ==
  [nil |-> FALSE,
   map |-> [x \in DOMAIN m.map \cup {k} |-> IF x = k THEN ptr ELSE m.map[x]]]

\* delete(m, k) on a Go map
MapDelete(m, k) ==
  [nil |-> FALSE, map |-> [x \in DOMAIN m.map \ {k} |-> m.map[x]]]

HasKey(m, k) == k \in DOMAIN m.map

\* position of the first record of cs with key k, 0 when there is none
FirstAt(cs, k) ==
  IF \E i \in 1..Len(cs) : cs[i].ClaveCliente = k
  THEN CHOOSE i \in 1..Len(cs) :
         /\ cs[i].ClaveCliente = k
         /\ \A j \in 1..(i - 1) : cs[j].ClaveCliente # k
  ELSE 0

\* ------------------------------------------------------------------ reads

\* GetByID of either repository: [found, val]
GetByID(k) ==
  IF variant = "optimized" /\ ~indiceClaveCliente.nil
  THEN IF HasKey(indiceClaveCliente, k)
       THEN [found |-> TRUE, val |-> Deref(heap, indiceClaveCliente.map[k])]
       ELSE [found |-> FALSE, val |-> ZeroContacto]
  ELSE LET i == FirstAt(Records, k)
       IN  IF i > 0 THEN [found |-> TRUE, val |-> Records[i]]
           ELSE [found |-> FALSE, val |-> ZeroContacto]

\* ExistsByID of either repository
ExistsByID(k) ==
  IF variant = "optimized"
  THEN IF ~indiceClaveCliente.nil THEN HasKey(indiceClaveCliente, k)
       ELSE FirstAt(Records, k) > 0
  ELSE GetByID(k).found

\* GetAll
GetAll == Records


\* ------------------------------------------------------------------ search

\* models.ContactoDTO
Criteria(clave, nombre, correo, telefono) ==
  [ClaveCliente |-> clave, Nombre |-> nombre, Correo |-> correo, Telefono |-> telefono]

\* the per-record test of ContactoRepository.Search and of sequentialSearch
Matches(c, cr) ==
  /\ cr.ClaveCliente # <<>> =>
       (~Atoi(cr.ClaveCliente).err /\ c.ClaveCliente = Atoi(cr.ClaveCliente).val)
  /\ cr.Nombre # <<>> => Contains(ToLower(c.Nombre), ToLower(cr.Nombre))
  /\ cr.Correo # <<>> => Contains(ToLower(c.Correo), ToLower(cr.Correo))
  /\ cr.Telefono # <<>> => Contains(c.TelefonoContacto, cr.Telefono)

\* sequentialSearch, and ContactoRepository.Search: the linear scan
sequentialSearch(cs, cr) == SelectSeq(cs, LAMBDA c : Matches(c, cr))

\* generateCacheKey: fmt.Sprintf("c:%s|n:%s|e:%s|t:%s", ...)
generateCacheKey(cr) ==
  <<"c", ":">> \o cr.ClaveCliente \o <<"|", "n", ":">> \o cr.Nombre
    \o <<"|", "e", ":">> \o cr.Correo \o <<"|", "t", ":">> \o cr.Telefono

\* SimpleOptimizedContactoRepository.Search after a cache miss
OptSearchMiss(cr) ==
  IF cr.ClaveCliente # <<>>
  THEN LET parsed == Atoi(cr.ClaveCliente)
       IN  IF ~parsed.err /\ GetByID(parsed.val).found
           THEN <<GetByID(parsed.val).val>> ELSE <<>>
  ELSE IF cr.Correo # <<>> /\ ~indiceCorreo.nil
  THEN IF HasKey(indiceCorreo, ToLower(cr.Correo))
       THEN <<Deref(heap, indiceCorreo.map[ToLower(cr.Correo)])>> ELSE <<>>
  ELSE sequentialSearch(Records, cr)

\* what Search(criteria) returns in the current state
SearchResult(cr) ==
  IF variant = "basic" THEN sequentialSearch(Records, cr)
  ELSE IF generateCacheKey(cr) \in DOMAIN searchCache
  THEN searchCache[generateCacheKey(cr)]
  ELSE OptSearchMiss(cr)

\* an end of Search that never empties the cache
CacheStoreNoFlush(key, res) ==
  IF Len(res) < CacheResultLimit
  THEN [x \in DOMAIN searchCache \cup {key} |->
          IF x = key THEN res ELSE searchCache[x]]
  ELSE searchCache

\* the end of Search: a short result is stored in the cache, which is
\* emptied first when it is full
CacheStore(key, res) ==
  LET base == IF Cardinality(DOMAIN searchCache) >= CacheMaxSize
                THEN <<>> ELSE searchCache
  IN  IF Len(res) < CacheResultLimit
      THEN [x \in DOMAIN base \cup {key} |-> IF x = key THEN res ELSE base[x]]
      ELSE searchCache

\* the cache after Search(criteria)
CacheAfterSearch(cr) ==
  IF variant = "basic" \/ generateCacheKey(cr) \in DOMAIN searchCache THEN searchCache
  ELSE CacheStore(generateCacheKey(cr), OptSearchMiss(cr))

\* clearCache
clearCache == <<>>

\* ------------------------------------------------------------------ inputs

Phone1 == <<"5", "5", "5", "1", "2", "3", "4", "5", "6", "7">>
Ana == <<"A", "n", "a">>
Bo == <<"B", "o">>
MailA == <<"a", "@", "x">>
MailB == <<"b", "@", "x">>

\* the record an operator's sheet may hold in its i-th data row: key i, and
\* the fields of Ana for odd i, of Bo for even i
SheetContacto(i) ==
  IF i % 2 = 1 THEN Contacto(i, Ana, MailA, Phone1) ELSE Contacto(i, Bo, MailB, Phone1)

\* the records Create and Update are called with: the key of the last sheet
\* row with the other fields, and a key no sheet holds
InputContactos ==
  { [SheetContacto(MaxRows + 1) EXCEPT !.ClaveCliente = MaxRows],
    SheetContacto(MaxRows + 1) }

\* the keys the calls are made with
InputKeys == {1, MaxRows, MaxRows + 1}

\* the row saveToExcel writes for a record
RowOf(c) == <<Itoa(c.ClaveCliente), c.Nombre, c.Correo, c.TelefonoContacto>>

SheetRow(i) == RowOf(SheetContacto(i))

\* the first n of those rows
RowsOf(n) == [i \in 1..n |-> SheetRow(i)]

Sheet(rows) == [rows |-> rows]

\* the sheets an operator may leave on disk
Files == {Sheet(<<HeaderRow>> \o RowsOf(n)) : n \in 0..MaxRows}

\* how opening the workbook ends: it opens, xlsx.OpenFile fails, or the
\* workbook has no sheets
OpenResults == {"nil", "OpenError", "NoSheets"}

\* search criteria the calls are made with
InputCriteria ==
  { Criteria(<<"1">>, <<>>, <<>>, <<>>),
    Criteria(<<>>, <<>>, MailA, <<>>) }


\* ------------------------------------------------------------------ load

\* a load that appends the valid records to the collection it finds
LoadParsedAppending(v, h, s, parsed, slack) ==
  [err |-> "nil",
   appended |-> AppendAll(h, [arr |-> s.arr, len |-> 0],
                          SubSeq(h[s.arr], 1, s.len) \o parsed.contactos, slack),
   loadErrors |-> parsed.loadErrors, invalidRowsData |-> parsed.invalidRowsData]

\* the rest of loadFromExcel once the rows are read: the valid records are
\* appended to the emptied slice
LoadParsed(v, h, s, parsed, slack) ==
  LET fresh == NewArr(h)
      h1    == IF v = "basic"
                 THEN [a \in DOMAIN h \cup {fresh} |-> IF a = fresh THEN <<>> ELSE h[a]]
                 ELSE h
      s1    == IF v = "basic" THEN [arr |-> fresh, len |-> 0]
                                ELSE [arr |-> s.arr, len |-> 0]
  IN  [err |-> "nil", appended |-> AppendAll(h1, s1, parsed.contactos, slack),
       loadErrors |-> parsed.loadErrors, invalidRowsData |-> parsed.invalidRowsData]

\* a load that records its failure to open the workbook as a RowError
loadFromExcelRecordsFailure(v, h, s, file, open, slack) ==
  IF open # "nil"
  THEN [err |-> open, appended |-> [heap |-> h, slice |-> s],
        loadErrors |-> <<RowError(0, "general", "archivo", <<>>, open, <<>>)>>,
        invalidRowsData |-> <<>>]
  ELSE LoadParsed(v, h, s, ParseRows(v, file.rows), slack)

\* a load that empties the collection before it opens the workbook
loadFromExcelEmptiesFirst(v, h, s, file, open, slack) ==
  IF open # "nil"
  THEN [err |-> open, appended |-> [heap |-> h, slice |-> [arr |-> s.arr, len |-> 0]],
        loadErrors |-> <<>>, invalidRowsData |-> <<>>]
  ELSE LoadParsed(v, h, s, ParseRows(v, file.rows), slack)

\* a load that gives up with an error at a sheet with an invalid row
loadFromExcelStrict(v, h, s, file, open, slack) ==
  IF open # "nil"
  THEN [err |-> open, appended |-> [heap |-> h, slice |-> s],
        loadErrors |-> <<>>, invalidRowsData |-> <<>>]
  ELSE IF ParseRows(v, file.rows).loadErrors # <<>>
  THEN [err |-> "RowError", appended |-> [heap |-> h, slice |-> s],
        loadErrors |-> <<>>, invalidRowsData |-> <<>>]
  ELSE LoadParsed(v, h, s, ParseRows(v, file.rows), slack)

\* loadFromExcel on the slice s: the basic repository starts a fresh slice
\* ([]models.Contacto{}), the optimized one reuses its array (r.contactos[:0]).
\* Nothing is touched when the file cannot be opened or has no sheets.
loadFromExcel(v, h, s, file, open, slack) ==
  IF open # "nil"
  THEN [err |-> open, appended |-> [heap |-> h, slice |-> s],
        loadErrors |-> <<>>, invalidRowsData |-> <<>>]
  ELSE LoadParsed(v, h, s, ParseRows(v, file.rows), slack)

\* the indices after a load that left the heap h and the slice s: built anew
\* when the collection is longer than the threshold, else ik and ic
IndicesAfterLoad(v, err, h, s, ik, ic) ==
  IF v = "optimized" /\ err = "nil" /\ s.len > IndexThreshold
  THEN Collect(h, s, KeyIndexOf(h, s), EmailIndexOf(h, s))
  ELSE Collect(h, s, ik, ic)

\* the repository a constructor returns after the load r
Constructed(v, file, r, g) ==
  /\ pending = <<>>
  /\ variant = v
  /\ excelFile = file
  /\ heap = g.heap
  /\ contactos = g.slice
  /\ loadErrors = r.loadErrors
  /\ invalidRowsData = r.invalidRowsData
  /\ indiceClaveCliente = g.ik
  /\ indiceCorreo = g.ic
  /\ searchCache = <<>>
  /\ faults = 0
  /\ last = Result("new", 0, r.err, FALSE)

ConstructedFrom(v, file, r) ==
  Constructed(v, file, r,
              IndicesAfterLoad(v, r.err, r.appended.heap, r.appended.slice, NilMap, NilMap))

\* NewContactoRepository / NewSimpleOptimizedContactoRepository
NewRepository(v, file, open, slack) ==
  ConstructedFrom(v, file,
                  loadFromExcel(v, [a \in {0} |-> <<>>], [arr |-> 0, len |-> 0],
                                file, open, slack))

Init == \E v \in {"basic", "optimized"}, file \in Files, open \in OpenResults,
            slack \in 0..MaxSlack :
          NewRepository(v, file, open, slack)

\* the call ReloadExcel: again tells that it followed a load without error
\* of the same sheet, with no other call and no edit in between
ReloadResult(err, again) ==
  [op |-> "reload", key |-> 0, err |-> err, saveCalled |-> FALSE, again |-> again]

\* a reload that adds the errors it finds to the errors of the load before
ReloadedKeepingErrors(r) ==
  /\ Commit(IndicesAfterLoad(variant, r.err, r.appended.heap, r.appended.slice,
                             indiceClaveCliente, indiceCorreo))
  /\ loadErrors' = loadErrors \o r.loadErrors
  /\ invalidRowsData' = IF r.err # "nil" THEN invalidRowsData
                        ELSE r.invalidRowsData
  /\ searchCache' = IF variant = "optimized" /\ r.err = "nil"
                      THEN clearCache ELSE searchCache
  /\ last' = ReloadResult(r.err, last.op \in {"new", "reload"} /\ last.err = "nil"
                                    /\ excelFile' = excelFile)

\* the repository after ReloadExcel made the load r: the optimized one
\* rebuilds its indices only for a long collection and clears its cache
\* only after a load without error
Reloaded(r) ==
  /\ Commit(IndicesAfterLoad(variant, r.err, r.appended.heap, r.appended.slice,
                             indiceClaveCliente, indiceCorreo))
  /\ loadErrors' = IF variant = "optimized" /\ r.err # "nil"
                     THEN loadErrors ELSE r.loadErrors
  /\ invalidRowsData' = IF r.err # "nil" THEN invalidRowsData
                        ELSE r.invalidRowsData
  /\ searchCache' = IF variant = "optimized" /\ r.err = "nil"
                      THEN clearCache ELSE searchCache
  /\ last' = ReloadResult(r.err, last.op \in {"new", "reload"} /\ last.err = "nil"
                                    /\ excelFile' = excelFile)

\* ReloadExcel. An edit of the spreadsheet by its operator is seen by the
\* store only here, so the edit is taken together with the reload that reads
\* it: file is the sheet now on disk, the one last saved or an edited one.
\* A reload that cannot open the workbook reads nothing of it.
ReloadExcel(file, open, slack) ==
  /\ open = "nil" \/ (faults < MaxFaults /\ file = excelFile)
  /\ excelFile' = file
  /\ faults' = IF open = "nil" THEN faults ELSE faults + 1
  /\ Reloaded(loadFromExcel(variant, heap, contactos, file, open, slack))
  /\ UNCHANGED variant

\* ------------------------------------------------------------------ writes

\* ContactoRepository.Create
BasicCreate(c, saveOk, slack) ==
  IF ExistsByID(c.ClaveCliente)
  THEN Refuse("create", c.ClaveCliente, "Conflict")
  ELSE LET r == AppendOne(heap, contactos, c, slack)
       IN  /\ Commit(Collect(r.heap, r.slice, indiceClaveCliente, indiceCorreo))
           /\ Save("create", c.ClaveCliente, SubSeq(r.heap[r.slice.arr], 1, r.slice.len), saveOk)
           /\ UNCHANGED <<variant, loadErrors, invalidRowsData, searchCache>>

\* SimpleOptimizedContactoRepository.Create
OptCreate(c, saveOk, slack) ==
  IF ~indiceClaveCliente.nil /\ HasKey(indiceClaveCliente, c.ClaveCliente)
  THEN Refuse("create", c.ClaveCliente, "Conflict")
  ELSE LET r == AppendOne(heap, contactos, c, slack)
           nuevoContacto == [arr |-> r.slice.arr, idx |-> r.slice.len]
           ik == IF indiceClaveCliente.nil THEN indiceClaveCliente
                 ELSE MapPut(indiceClaveCliente, c.ClaveCliente, nuevoContacto)
           ic == IF indiceCorreo.nil THEN indiceCorreo
                 ELSE MapPut(indiceCorreo, ToLower(c.Correo), nuevoContacto)
       IN  /\ Commit(Collect(r.heap, r.slice, ik, ic))
           /\ searchCache' = clearCache
           /\ Save("create", c.ClaveCliente, SubSeq(r.heap[r.slice.arr], 1, r.slice.len), saveOk)
           /\ UNCHANGED <<variant, loadErrors, invalidRowsData>>

\* a Create that takes the record back out when the save fails
CreateRollingBack(c, saveOk, slack) ==
  /\ contactos.len < MaxLen
  /\ IF \/ saveOk
        \/ variant = "basic" /\ ExistsByID(c.ClaveCliente)
        \/ variant = "optimized" /\ ~indiceClaveCliente.nil
             /\ HasKey(indiceClaveCliente, c.ClaveCliente)
     THEN IF variant = "basic" THEN BasicCreate(c, saveOk, slack)
                               ELSE OptCreate(c, saveOk, slack)
     ELSE /\ faults < MaxFaults
          /\ faults' = faults + 1
          /\ last' = Result("create", c.ClaveCliente, "SaveError", TRUE)
          /\ UNCHANGED <<variant, excelFile, heap, contactos, loadErrors,
                         invalidRowsData, indiceClaveCliente, indiceCorreo,
                         searchCache, pending>>

Create(c, saveOk, slack) ==
  /\ contactos.len < MaxLen
  /\ IF variant = "basic" THEN BasicCreate(c, saveOk, slack)
                          ELSE OptCreate(c, saveOk, slack)

\* the heap after *ptr = c
Store(h, ptr, c) == [h EXCEPT ![ptr.arr][ptr.idx] = c]

\* the target of Update: ContactoRepository.Update and the optimized
\* repository without an index scan the slice for the first record with the
\* key; with an index the optimized repository follows the index entry.
\* <<>> when the key is not found.
BasicUpdateTarget(k) ==
  LET i == FirstAt(Records, k)
  IN  Opt(i > 0, [arr |-> contactos.arr, idx |-> i])

OptUpdateTarget(k) ==
  IF ~indiceClaveCliente.nil
  THEN Opt(HasKey(indiceClaveCliente, k),
           IF HasKey(indiceClaveCliente, k) THEN indiceClaveCliente.map[k]
           ELSE [arr |-> contactos.arr, idx |-> 0])
  ELSE BasicUpdateTarget(k)

\* Update of either repository
Update(c, saveOk) ==
  LET target == IF variant = "basic" THEN BasicUpdateTarget(c.ClaveCliente)
                ELSE OptUpdateTarget(c.ClaveCliente)
  IN
  IF target = <<>>
  THEN Refuse("update", c.ClaveCliente, "NotFound")
  ELSE LET h == Store(heap, target[1], c)
       IN  /\ heap' = h
           /\ searchCache' = IF variant = "optimized" THEN clearCache ELSE searchCache
           /\ Save("update", c.ClaveCliente, SubSeq(h[contactos.arr], 1, contactos.len), saveOk)
           /\ UNCHANGED <<variant, contactos, loadErrors, invalidRowsData,
                          indiceClaveCliente, indiceCorreo, pending>>

\* the rest of Delete once the record is found at position i: it is removed;
\* the optimized repository then drops the key from its index and, when it
\* has indices, rebuilds them
DeleteAt(k, r, saveOk) ==
  LET rebuild == variant = "optimized" /\ ~indiceCorreo.nil
      ik == IF rebuild THEN KeyIndexOf(r.heap, r.slice)
            ELSE IF variant = "optimized" /\ ~indiceClaveCliente.nil
            THEN MapDelete(indiceClaveCliente, k)
            ELSE indiceClaveCliente
      ic == IF rebuild THEN EmailIndexOf(r.heap, r.slice) ELSE indiceCorreo
  IN  /\ Commit(Collect(r.heap, r.slice, ik, ic))
      /\ searchCache' = IF variant = "optimized" THEN clearCache ELSE searchCache
      /\ Save("delete", k, SubSeq(r.heap[r.slice.arr], 1, r.slice.len), saveOk)
      /\ UNCHANGED <<variant, loadErrors, invalidRowsData>>

\* a Delete that drops the key from the index before it looks for the record
DeleteDropsKeyFirst(k, saveOk) ==
  IF FirstAt(Records, k) = 0
  THEN /\ indiceClaveCliente' =
            IF variant = "optimized" /\ ~indiceClaveCliente.nil
            THEN MapDelete(indiceClaveCliente, k) ELSE indiceClaveCliente
       /\ last' = Result("delete", k, "NotFound", FALSE)
       /\ UNCHANGED <<variant, excelFile, heap, contactos, loadErrors, invalidRowsData,
                      indiceCorreo, searchCache, faults, pending>>
  ELSE DeleteAt(k, RemoveAt(heap, contactos, FirstAt(Records, k)), saveOk)

\* Delete of either repository: the slice is scanned for the first record
\* with the key; without one the call ends there
Delete(k, saveOk) ==
  IF FirstAt(Records, k) = 0
  THEN Refuse("delete", k, "NotFound")
  ELSE DeleteAt(k, RemoveAt(heap, contactos, FirstAt(Records, k)), saveOk)

\* Search of either repository: the optimized one may store its result
Search(cr) ==
  /\ searchCache' = CacheAfterSearch(cr)
  /\ last' = Result("search", 0, "nil", FALSE)
  /\ UNCHANGED <<variant, excelFile, heap, contactos, loadErrors, invalidRowsData,
                 indiceClaveCliente, indiceCorreo, faults, pending>>

Next ==
  \/ \E c \in InputContactos, saveOk \in BOOLEAN, slack \in 0..MaxSlack :
       Create(c, saveOk, slack)
  \/ \E c \in InputContactos, saveOk \in BOOLEAN : Update(c, saveOk)
  \/ \E k \in InputKeys, saveOk \in BOOLEAN : Delete(k, saveOk)
  \/ \E file \in Files \cup {excelFile}, open \in OpenResults, slack \in 0..MaxSlack :
       ReloadExcel(file, open, slack)
  \/ \E cr \in InputCriteria : Search(cr)

Spec == Init /\ [][Next]_vars

\* ------------------------------------------------- loading edited sheets

\* data rows of an edited sheet
MaxLoadRows == 2

\* a telephone of ten characters, one of them no digit
PhoneX == <<"5", "5", "5", "1", "2", "3", "4", "5", "6", "x">>

\* rows an operator may type: two complete rows with key 1, a complete row
\* with key 2, a row of one cell, a row whose key is not a number, a row of
\* one blank cell, a row with key 0 and a short telephone, a row with no
\* name and a key that is not a number, and a row whose telephone has ten
\* characters that are not all digits
LoadRows ==
  { SheetRow(1),
    RowOf(Contacto(1, Bo, MailB, Phone1)),
    SheetRow(2),
    << <<"x">> >>,
    << <<"x">>, Ana, MailA, Phone1 >>,
    << <<" ">> >>,
    << <<"0">>, Ana, MailA, <<"5">> >>,
    << <<"x">>, <<>>, MailA, Phone1 >>,
    << <<"2">>, Bo, MailB, PhoneX >> }

RECURSIVE RowSeqs(_)
RowSeqs(n) ==
  IF n = 0 THEN {<<>>}
  ELSE RowSeqs(n - 1) \cup {Append(rs, r) : rs \in RowSeqs(n - 1), r \in LoadRows}

LoadFiles == {Sheet(<<HeaderRow>> \o rs) : rs \in RowSeqs(MaxLoadRows)}

\* a repository constructed on an edited sheet, then reloaded after edits
InitLoad == \E v \in {"basic", "optimized"}, file \in LoadFiles, open \in OpenResults,
                slack \in 0..MaxSlack :
              NewRepository(v, file, open, slack)

\* the sheet after its operator typed one more row at its end, or removed
\* its last row, or left it alone
Edited(file) ==
  {file}
    \cup {Sheet(Append(file.rows, r)) : r \in IF Len(file.rows) <= MaxLoadRows
                                               THEN LoadRows ELSE {}}
    \cup {Sheet(SubSeq(file.rows, 1, Len(file.rows) - 1)) :
            x \in IF Len(file.rows) > 1 THEN {0} ELSE {}}

NextLoad == \E file \in Edited(excelFile), open \in OpenResults, slack \in 0..MaxSlack :
              ReloadExcel(file, open, slack)

SpecLoad == InitLoad /\ [][NextLoad]_vars

\* ---------------------------------------- writes after a sheet with errors

\* rows of an edited sheet: a Record, a key that is not a number, a short row
DirtyRows ==
  { SheetRow(1),
    << <<"x">>, Ana, MailA, Phone1 >>,
    << <<"x">> >> }

DirtyFiles ==
  {Sheet(<<HeaderRow>> \o rs) :
     rs \in {q \in RowSeqs(MaxLoadRows) : \A j \in 1..Len(q) : q[j] \in DirtyRows}}

\* a repository constructed on an edited sheet
InitSave == \E v \in {"basic", "optimized"}, file \in DirtyFiles, open \in OpenResults,
                slack \in 0..MaxSlack :
              NewRepository(v, file, open, slack)

\* the calls that write the sheet, and reloads of the sheet as it then is
NextSave ==
  \/ \E c \in InputContactos, saveOk \in BOOLEAN, slack \in 0..MaxSlack :
       Create(c, saveOk, slack)
  \/ \E c \in InputContactos, saveOk \in BOOLEAN : Update(c, saveOk)
  \/ \E k \in InputKeys, saveOk \in BOOLEAN : Delete(k, saveOk)
  \/ \E open \in OpenResults, slack \in 0..MaxSlack : ReloadExcel(excelFile, open, slack)

SpecSave == InitSave /\ [][NextSave]_vars

\* ------------------------------------------------ the validation report

\* models.ExcelValidationReport, without its timestamp
ExcelValidationReport(total, valid, invalid, errors, invalidData) ==
  [TotalRows |-> total, ValidRows |-> valid, InvalidRows |-> invalid,
   Errors |-> errors, InvalidRowsData |-> invalidData]

\* ContactoService.GetExcelValidationReport. The service over a
\* ContactoRepository adds the errors to the records and counts the rows
\* that have errors. The service over the optimized repository asks for the
\* snapshots only if the repository is a *ContactoRepository, which the
\* optimized one is not: it counts no invalid row.
GetExcelValidationReport ==
  IF variant = "basic"
  THEN ExcelValidationReport(Len(Records) + Len(loadErrors), Len(Records),
                             Cardinality({loadErrors[i].Row : i \in 1..Len(loadErrors)}),
                             loadErrors, <<>>)
  ELSE ExcelValidationReport(Len(Records) + 0, Len(Records), 0, loadErrors, <<>>)

\* ------------------------------------------- Search beside other calls

\* Search holds no lock from its cache check to its cache store: the check
\* is made under cacheMu, the result is computed under r.mu at most, and the
\* store is made under cacheMu again. Between the two steps below any other
\* call may run from start to end.

\* Search up to the computation of its result, after a cache miss
SearchCompute(cr) ==
  /\ pending = <<>>
  /\ variant = "basic" \/ generateCacheKey(cr) \notin DOMAIN searchCache
  /\ pending' = <<[op |-> "search", key |-> generateCacheKey(cr),
                   res |-> IF variant = "basic" THEN sequentialSearch(Records, cr)
                           ELSE OptSearchMiss(cr)]>>
  /\ UNCHANGED <<variant, excelFile, heap, contactos, loadErrors, invalidRowsData,
                 indiceClaveCliente, indiceCorreo, searchCache, faults, last>>

\* what that Search leaves behind; flushed records that it emptied a full
\* cache before it stored its result
SearchStored(flushed) ==
  [op |-> "search", key |-> 0, err |-> "nil", saveCalled |-> FALSE,
   flushed |-> flushed]

\* the rest of that Search: the result is stored in the cache and returned
SearchStore ==
  /\ pending # <<>>
  /\ pending[1].op = "search"
  /\ searchCache' = IF variant = "optimized"
                      THEN CacheStore(pending[1].key, pending[1].res)
                      ELSE searchCache
  /\ pending' = <<>>
  /\ last' = SearchStored(/\ variant = "optimized"
                          /\ Len(pending[1].res) < CacheResultLimit
                          /\ Cardinality(DOMAIN searchCache) >= CacheMaxSize)
  /\ UNCHANGED <<variant, excelFile, heap, contactos, loadErrors, invalidRowsData,
                 indiceClaveCliente, indiceCorreo, faults>>

\* the repository with the cache, constructed on a sheet
InitCache == \E file \in Files, open \in OpenResults, slack \in 0..MaxSlack :
               NewRepository("optimized", file, open, slack)

\* the calls of the service beside a Search in two steps; the sheet is
\* reloaded as the store last saved it
NextCache ==
  \/ \E c \in InputContactos, saveOk \in BOOLEAN, slack \in 0..MaxSlack :
       Create(c, saveOk, slack)
  \/ \E c \in InputContactos, saveOk \in BOOLEAN : Update(c, saveOk)
  \/ \E k \in InputKeys, saveOk \in BOOLEAN : Delete(k, saveOk)
  \/ \E open \in OpenResults, slack \in 0..MaxSlack : ReloadExcel(excelFile, open, slack)
  \/ \E cr \in InputCriteria : SearchCompute(cr)
  \/ SearchStore

SpecCache == InitCache /\ [][NextCache]_vars

\* --------------------------------------------- scans beside other calls

\* sequentialSearch, the scans GetByID and ExistsByID fall back to, and the
\* loop of a caller over the slice GetAll returned, take no lock: the range
\* loop takes the header of r.contactos once and then reads the records of
\* its array one by one, while any other call may run from start to end.

\* the loop begins: it holds the slice header (before: the collection then)
ScanBegin ==
  /\ pending = <<>>
  /\ pending' = <<[op |-> "scan", slice |-> contactos, before |-> Records]>>
  /\ UNCHANGED <<variant, excelFile, heap, contactos, loadErrors, invalidRowsData,
                 indiceClaveCliente, indiceCorreo, searchCache, faults, last>>

\* the call the scan made: the records its loop read
Scanned(seen, before) ==
  [op |-> "scan", key |-> 0, err |-> "nil", saveCalled |-> FALSE,
   seen |-> seen, before |-> before]

\* the repository once the loop has let go of the header
ScanDone(g) ==
  /\ heap' = g.heap
  /\ contactos' = g.slice
  /\ indiceClaveCliente' = g.ik
  /\ indiceCorreo' = g.ic
  /\ pending' = <<>>

\* the loop reads the records under the header it holds, and ends
ScanEnd ==
  /\ pending # <<>>
  /\ pending[1].op = "scan"
  /\ last' = Scanned(SubSeq(heap[pending[1].slice.arr], 1, pending[1].slice.len),
                     pending[1].before)
  /\ ScanDone(CollectHeld(heap, contactos, indiceClaveCliente, indiceCorreo, {}))
  /\ UNCHANGED <<variant, excelFile, loadErrors, invalidRowsData, searchCache, faults>>

\* the calls of the service beside a scan; the sheet is written without
\* failure and reloaded as the store last saved it
NextScan ==
  \/ \E c \in InputContactos, slack \in 0..MaxSlack : Create(c, TRUE, slack)
  \/ \E c \in InputContactos : Update(c, TRUE)
  \/ \E k \in InputKeys : Delete(k, TRUE)
  \/ \E open \in OpenResults, slack \in 0..MaxSlack : ReloadExcel(excelFile, open, slack)
  \/ ScanBegin
  \/ ScanEnd

SpecScan == InitCache /\ [][NextScan]_vars

\* ------------------------------------------------------------ the service

IsLetter(c) == \E i \in 1..26 : UpperLetters[i] = c \/ LowerLetters[i] = c

\* telefonoRegex: ^\d{10}$
MatchTelefono(t) == Len(t) = 10 /\ \A j \in 1..Len(t) : IsDigit(t[j])

\* the providers correoRegex names
Providers ==
  { <<"g", "m", "a", "i", "l", ".", "c", "o", "m">>,
    <<"y", "a", "h", "o", "o", ".", "c", "o", "m">>,
    <<"h", "o", "t", "m", "a", "i", "l", ".", "c", "o", "m">>,
    <<"o", "u", "t", "l", "o", "o", "k", ".", "c", "o", "m">>,
    <<"l", "i", "v", "e", ".", "c", "o", "m">>,
    <<"i", "c", "l", "o", "u", "d", ".", "c", "o", "m">>,
    <<"p", "r", "o", "t", "o", "n", "m", "a", "i", "l", ".", "c", "o", "m">> }

\* correoRegex: ^[a-zA-Z0-9._%+-]+@(provider)$
MatchCorreo(c) ==
  \E k \in 2..Len(c) :
    /\ c[k] = "@"
    /\ \A j \in 1..(k - 1) :
         IsLetter(c[j]) \/ IsDigit(c[j]) \/ c[j] \in {".", "_", "%", "+", "-"}
    /\ SubSeq(c, k + 1, Len(c)) \in Providers

\* nombreRegex: ^[a-zA-Z...\s]+$ (letters, of which the inputs hold the
\* unaccented ones, and white space)
MatchNombre(n) ==
  /\ Len(n) >= 1
  /\ \A j \in 1..Len(n) : IsLetter(n[j]) \/ n[j] \in {" ", "\t", "\n", "\r", "\f"}

\* a ValidarNombre that matches the expression only
ValidarNombreByRegex(n) == Opt(~MatchNombre(n), "nombre")

\* ContactoValidator.ValidarNombre
ValidarNombre(n) == Opt(~MatchNombre(n) \/ TrimSpace(n) = <<>>, "nombre")

\* ContactoValidator.ValidarContacto: the fields found wrong
ValidarContacto(c) ==
     Opt(~MatchTelefono(c.TelefonoContacto), "telefonoContacto")
  \o Opt(~MatchCorreo(c.Correo), "correo")
  \o ValidarNombre(c.Nombre)
  \o Opt(c.ClaveCliente <= 0, "claveCliente")

\* ContactoService.CreateContacto
CreateContacto(c, saveOk, slack) ==
  IF ValidarContacto(c) # <<>> THEN Refuse("create", c.ClaveCliente, "Validation")
  ELSE IF ExistsByID(c.ClaveCliente) THEN Refuse("create", c.ClaveCliente, "Exists")
  ELSE Create(c, saveOk, slack)

\* ContactoService.UpdateContacto(claveCliente, request)
UpdateContacto(k, c, saveOk) ==
  IF k <= 0 THEN Refuse("update", k, "Validation")
  ELSE IF ~GetByID(k).found THEN Refuse("update", k, "NotFound")
  ELSE IF ValidarContacto([c EXCEPT !.ClaveCliente = k]) # <<>>
  THEN Refuse("update", k, "Validation")
  ELSE Update([c EXCEPT !.ClaveCliente = k], saveOk)

Gmail == <<"a", "@", "g", "m", "a", "i", "l", ".", "c", "o", "m">>

\* the requests the service is called with: a name, the name after a space,
\* and a name with a digit
RequestContactos ==
  { Contacto(MaxRows + 1, n, Gmail, Phone1) : n \in {Ana, <<" ">> \o Ana, <<"A", "4">>} }

\* the service over either repository; the sheet is reloaded as the store
\* last saved it
NextService ==
  \/ \E c \in RequestContactos, saveOk \in BOOLEAN, slack \in 0..MaxSlack :
       CreateContacto(c, saveOk, slack)
  \/ \E k \in InputKeys, c \in RequestContactos, saveOk \in BOOLEAN :
       UpdateContacto(k, c, saveOk)
  \/ \E open \in OpenResults, slack \in 0..MaxSlack : ReloadExcel(excelFile, open, slack)

SpecService == Init /\ [][NextService]_vars

\* ------------------------------------------------------------ the locks

\* the goroutines that call the optimized repository side by side
MaxProcs == 2

Procs == 1..MaxProcs

\* one lock call: r.mu or r.cacheMu, for reading (RLock, RUnlock) or for
\* writing (Lock, Unlock)
LockCall(lock, mode, act) == [lock |-> lock, mode |-> mode, act |-> act]

\* clearCache
ClearCacheCalls ==
  <<LockCall("cacheMu", "W", "lock"), LockCall("cacheMu", "W", "unlock")>>

\* a Search that looks through the index and holds r.cacheMu meanwhile
SearchHoldingCache ==
  <<LockCall("cacheMu", "W", "lock"),
    LockCall("mu", "R", "lock"), LockCall("mu", "R", "unlock"),
    LockCall("cacheMu", "W", "unlock")>>

\* Search through GetByID or the email index: the cache is read and let go,
\* the index is read under r.mu, the result is stored under r.cacheMu
SearchIndexedCalls ==
  <<LockCall("cacheMu", "R", "lock"), LockCall("cacheMu", "R", "unlock"),
    LockCall("mu", "R", "lock"), LockCall("mu", "R", "unlock"),
    LockCall("cacheMu", "W", "lock"), LockCall("cacheMu", "W", "unlock")>>

\* the lock calls of the methods of SimpleOptimizedContactoRepository, in the
\* order each makes them: GetByID and ExistsByID with the index; Search that
\* finds its key in the cache (or does not store its result), Search through
\* GetByID or the email index, Search through sequentialSearch; Create,
\* Update, Delete and ReloadExcel, and those that return before clearCache
Calls(op) ==
  CASE op \in {"GetByID", "ExistsByID"} ->
         <<LockCall("mu", "R", "lock"), LockCall("mu", "R", "unlock")>>
    [] op = "SearchCached" ->
         <<LockCall("cacheMu", "R", "lock"), LockCall("cacheMu", "R", "unlock")>>
    [] op = "SearchIndexed" -> SearchIndexedCalls
    [] op = "SearchSequential" ->
         <<LockCall("cacheMu", "R", "lock"), LockCall("cacheMu", "R", "unlock"),
           LockCall("cacheMu", "W", "lock"), LockCall("cacheMu", "W", "unlock")>>
    [] op \in {"Create", "Update", "Delete", "ReloadExcel"} ->
         <<LockCall("mu", "W", "lock")>> \o ClearCacheCalls
           \o <<LockCall("mu", "W", "unlock")>>
    [] op = "Refused" ->
         <<LockCall("mu", "W", "lock"), LockCall("mu", "W", "unlock")>>

LockOps ==
  {"GetByID", "ExistsByID", "SearchCached", "SearchIndexed", "SearchSequential",
   "Create", "Update", "Delete", "ReloadExcel", "Refused"}

\* a sync.RWMutex: the goroutine that holds it for writing, the one whose
\* Lock waits for the readers to leave (0 for none), and its readers
Unlocked == [w |-> 0, q |-> 0, r |-> {}]

\* whether goroutine p's call goes on: Lock first takes the writers' mutex
\* and announces itself, then returns once no reader is left; RLock returns
\* unless a writer holds the mutex or has announced itself
CanLock(l, p, mode) ==
  IF mode = "R" THEN l.w = 0 /\ l.q = 0
  ELSE IF l.q = p THEN l.r = {}
  ELSE l.w = 0 /\ l.q = 0

\* whether the call has returned after that step
Returned(l, p, call) == call.act = "unlock" \/ call.mode = "R" \/ l.q = p

\* the mutex after goroutine p went on with the call
AfterCall(l, p, call) ==
  IF call.act = "lock"
  THEN IF call.mode = "R" THEN [l EXCEPT !.r = @ \cup {p}]
       ELSE IF l.q = p THEN [l EXCEPT !.w = p, !.q = 0]
       ELSE [l EXCEPT !.q = p]
  ELSE IF call.mode = "W" THEN [l EXCEPT !.w = 0] ELSE [l EXCEPT !.r = @ \ {p}]

\* the goroutines and the two locks: todo[p] holds the lock calls goroutine
\* p has still to make before its method returns
Serving(todo, mu, cacheMu) ==
  [op |-> "locks", todo |-> todo, mu |-> mu, cacheMu |-> cacheMu]

\* the handlers begin to serve requests
Serve ==
  /\ pending = <<>>
  /\ pending' = <<Serving([p \in Procs |-> <<>>], Unlocked, Unlocked)>>
  /\ UNCHANGED <<variant, excelFile, heap, contactos, loadErrors, invalidRowsData,
                 indiceClaveCliente, indiceCorreo, searchCache, faults, last>>

\* goroutine p calls a method
Call(p, op) ==
  /\ pending # <<>>
  /\ pending[1].op = "locks"
  /\ pending[1].todo[p] = <<>>
  /\ pending' = <<[pending[1] EXCEPT !.todo[p] = Calls(op)]>>
  /\ UNCHANGED <<variant, excelFile, heap, contactos, loadErrors, invalidRowsData,
                 indiceClaveCliente, indiceCorreo, searchCache, faults, last>>

\* goroutine p goes on with its next lock call, when the mutex lets it
LockStep(p) ==
  /\ pending # <<>>
  /\ pending[1].op = "locks"
  /\ pending[1].todo[p] # <<>>
  /\ LET call == Head(pending[1].todo[p])
         l == pending[1][call.lock]
     IN  /\ call.act = "lock" => CanLock(l, p, call.mode)
         /\ pending' = <<[pending[1] EXCEPT
                            !.todo[p] = IF Returned(l, p, call) THEN Tail(@) ELSE @,
                            ![call.lock] = AfterCall(l, p, call)]>>
  /\ UNCHANGED <<variant, excelFile, heap, contactos, loadErrors, invalidRowsData,
                 indiceClaveCliente, indiceCorreo, searchCache, faults, last>>

NextLock ==
  \/ Serve
  \/ \E p \in Procs, op \in LockOps : Call(p, op)
  \/ \E p \in Procs : LockStep(p)

SpecLock == InitCache /\ [][NextLock]_vars

\* sync.Mutex and sync.RWMutex hand the lock to a goroutine that keeps
\* waiting for it (starvation mode; a waiting Lock holds back new RLocks)
SpecLockFair == SpecLock /\ \A p \in Procs : SF_vars(LockStep(p))

\* --------------------------------------- requests near the validator's edge

\* request bodies: a name with white space around it, one of white space only
\* and one with a digit; telephones of ten digits and of ten characters; an
\* email of a known provider and one of another
EdgeContactos ==
  { Contacto(MaxRows + 1, n, e, t) :
      n \in {<<" ">> \o Ana \o <<" ">>, <<" ">>, <<"A", "4">>},
      e \in {Gmail, MailA},
      t \in {Phone1, PhoneX} }

\* the service's writes with those bodies, and reloads of the saved sheet
NextEdge ==
  \/ \E c \in EdgeContactos, saveOk \in BOOLEAN, slack \in 0..MaxSlack :
       CreateContacto(c, saveOk, slack)
  \/ \E k \in InputKeys, c \in EdgeContactos, saveOk \in BOOLEAN :
       UpdateContacto(k, c, saveOk)
  \/ \E open \in OpenResults, slack \in 0..MaxSlack : ReloadExcel(excelFile, open, slack)

SpecEdge == Init /\ [][NextEdge]_vars

\* ------------------------------------------- two CreateContacto requests

\* two requests have run CreateContacto up to its call of repo.Create: each
\* record has passed ValidarContacto, and ExistsByID has found neither key
CreateChecked(c1, c2) ==
  /\ pending = <<>>
  /\ ValidarContacto(c1) = <<>> /\ ~ExistsByID(c1.ClaveCliente)
  /\ ValidarContacto(c2) = <<>> /\ ~ExistsByID(c2.ClaveCliente)
  /\ pending' = <<[op |-> "create", cs |-> <<c1, c2>>]>>
  /\ UNCHANGED <<variant, excelFile, heap, contactos, loadErrors, invalidRowsData,
                 indiceClaveCliente, indiceCorreo, searchCache, faults, last>>

\* whether repo.Create returns at its own check for the key
CreateRefuses(k) ==
  IF variant = "basic" THEN ExistsByID(k)
  ELSE ~indiceClaveCliente.nil /\ HasKey(indiceClaveCliente, k)

\* the next of the waiting requests calls repo.Create and returns
CreateCall(saveOk, slack) ==
  /\ pending # <<>>
  /\ pending[1].op = "create"
  /\ IF CreateRefuses(pending[1].cs[1].ClaveCliente)
     THEN /\ last' = Result("create", pending[1].cs[1].ClaveCliente, "Conflict", FALSE)
          /\ pending' = Called(pending)
          /\ UNCHANGED <<variant, excelFile, heap, contactos, loadErrors,
                         invalidRowsData, indiceClaveCliente, indiceCorreo,
                         searchCache, faults>>
     ELSE Create(pending[1].cs[1], saveOk, slack)

\* pairs of requests between deletions
NextCreate ==
  \/ \E c1 \in RequestContactos, c2 \in RequestContactos : CreateChecked(c1, c2)
  \/ \E saveOk \in BOOLEAN, slack \in 0..MaxSlack : CreateCall(saveOk, slack)
  \/ \E k \in InputKeys, saveOk \in BOOLEAN : Delete(k, saveOk)

SpecCreate == Init /\ [][NextCreate]_vars

\* ------------------------------------------------------- the HTTP handler

\* the texts of the errors (accents left out; the error of file.Save, which
\* saveToExcel wraps, is left out of its text)
MsgNoEncontrado ==
  <<"c", "o", "n", "t", "a", "c", "t", "o", " ", "n", "o", " ", "e", "n",
  "c", "o", "n", "t", "r", "a", "d", "o">>

MsgConClave ==
  <<"c", "o", "n", "t", "a", "c", "t", "o", " ", "c", "o", "n", " ", "c",
  "l", "a", "v", "e", " ">>

MsgNoEncontradoFin ==
  <<" ", "n", "o", " ", "e", "n", "c", "o", "n", "t", "r", "a", "d", "o">>

MsgErrorEliminando ==
  <<"e", "r", "r", "o", "r", " ", "e", "l", "i", "m", "i", "n", "a", "n",
  "d", "o", " ", "c", "o", "n", "t", "a", "c", "t", "o">>

MsgErrorGuardando ==
  <<"e", "r", "r", "o", "r", " ", "g", "u", "a", "r", "d", "a", "n", "d",
  "o", " ", "a", "r", "c", "h", "i", "v", "o", " ", "E", "x", "c", "e",
  "l">>

MsgClaveInvalida ==
  <<"c", "l", "a", "v", "e", " ", "c", "l", "i", "e", "n", "t", "e", " ",
  "i", "n", "v", "a", "l", "i", "d", "a", ":", " ">>

\* fmt.Errorf("<text>: %w", err): the text of the wrapping error
Errorf(text, err) == text \o <<":", " ">> \o err

\* the error of GetByID and of Delete for a key the repository does not find
RepoNotFound(k) == MsgConClave \o Itoa(k) \o MsgNoEncontradoFin

\* the text of the error ContactoService.DeleteContacto returns before it
\* calls repo.Delete, <<>> when it goes on to call it
DeleteContactoRefusal(k) ==
  IF k <= 0 THEN MsgClaveInvalida \o Itoa(k)
  ELSE IF ~GetByID(k).found THEN Errorf(MsgNoEncontrado, RepoNotFound(k))
  ELSE <<>>

\* ContactoHandler.DeleteContacto: the response for the service's error
DeleteResponse(err) ==
  IF err = <<>> THEN "Success"
  ELSE IF err = MsgNoEncontrado THEN "NotFound"
  ELSE "InternalServerError"

\* what a DELETE request that the service refused leaves behind
Responded(k, err, status) ==
  [op |-> "delete", key |-> k, err |-> err, saveCalled |-> FALSE, status |-> status]

\* DELETE /api/contactos/{clave}: the handler calls the service, which
\* refuses or calls repo.Delete
HandleDelete(k, saveOk) ==
  IF DeleteContactoRefusal(k) # <<>>
  THEN /\ last' = Responded(k, IF k <= 0 THEN "Validation" ELSE "NotFound",
                            DeleteResponse(DeleteContactoRefusal(k)))
       /\ UNCHANGED <<variant, excelFile, heap, contactos, loadErrors, invalidRowsData,
                      indiceClaveCliente, indiceCorreo, searchCache, faults, pending>>
  ELSE Delete(k, saveOk)

\* the response of the DELETE request that has just been handled
LastDeleteResponse ==
  IF "status" \in DOMAIN last THEN last.status
  ELSE IF last.err = "nil" THEN DeleteResponse(<<>>)
  ELSE IF last.err = "NotFound"
  THEN DeleteResponse(Errorf(MsgErrorEliminando, RepoNotFound(last.key)))
  ELSE DeleteResponse(Errorf(MsgErrorEliminando, MsgErrorGuardando))

\* requests to delete, between creations
NextHandler ==
  \/ \E k \in InputKeys \cup {0}, saveOk \in BOOLEAN : HandleDelete(k, saveOk)
  \/ \E c \in InputContactos, saveOk \in BOOLEAN, slack \in 0..MaxSlack :
       Create(c, saveOk, slack)

SpecHandler == Init /\ [][NextHandler]_vars

\* ------------------------------------------- Search with separator text

\* the text generateCacheKey puts before the email criterion
SepCorreo == <<"|", "e", ":">>

\* a record whose name holds that text (Create takes any name)
KeyContactos == {Contacto(MaxRows + 1, <<"a">> \o SepCorreo, MailA, Phone1)}

\* criteria with that text in the name, or in the email, and one without it
KeyCriteria ==
  { Criteria(<<>>, <<"a">> \o SepCorreo, <<>>, <<>>),
    Criteria(<<>>, <<"a">>, SepCorreo, <<>>),
    Criteria(<<>>, <<"a">>, <<>>, <<>>) }

\* the optimized repository, written and searched by one caller at a time
NextKey ==
  \/ \E c \in KeyContactos, saveOk \in BOOLEAN, slack \in 0..MaxSlack :
       Create(c, saveOk, slack)
  \/ \E k \in InputKeys, saveOk \in BOOLEAN : Delete(k, saveOk)
  \/ \E cr \in KeyCriteria : Search(cr)

SpecKey == InitCache /\ [][NextKey]_vars

\* the sheets its operator may leave: the first rows, or the last rows
CutFiles ==
  Files \cup {Sheet(<<HeaderRow>> \o SubSeq(RowsOf(MaxRows), n, MaxRows)) : n \in 1..MaxRows}

InitUpdate == \E v \in {"basic", "optimized"}, file \in CutFiles, open \in OpenResults,
                  slack \in 0..MaxSlack :
                NewRepository(v, file, open, slack)

\* updates through the service, and reloads of the sheet as its operator left it
NextUpdate ==
  \/ \E k \in InputKeys, c \in RequestContactos, saveOk \in BOOLEAN :
       UpdateContacto(k, c, saveOk)
  \/ \E file \in CutFiles \cup {excelFile}, open \in OpenResults, slack \in 0..MaxSlack :
       ReloadExcel(file, open, slack)

SpecUpdate == InitUpdate /\ [][NextUpdate]_vars

\* ------------------------------------------------------------------ C1

\* the key a data row carries: its first cell as a positive integer, else 0
RowKey(row) ==
  IF Len(row) >= 1 /\ ~Atoi(TrimSpace(row[1])).err /\ Atoi(TrimSpace(row[1])).val > 0
  THEN Atoi(TrimSpace(row[1])).val ELSE 0

\* the collection was read from the sheet now on disk
Loaded == last.op \in {"new", "reload"} /\ last.err = "nil"

\* no two Records share a key
UniqueKeys(cs) ==
  \A i, j \in 1..Len(cs) : cs[i].ClaveCliente = cs[j].ClaveCliente => i = j

\* C1: after a load, in either repository variant, no two Records of the
\* collection share a key; when two data rows carry the same positive key the
\* earlier one is the Record and the later one is rejected with a RowError on
\* its key and is no second Record.
C1_LoadKeepsKeysUnique ==
  Loaded =>
    /\ UniqueKeys(Records)
    /\ \A i, j \in 2..Len(excelFile.rows) :
         (i < j /\ RowKey(excelFile.rows[i]) > 0
                /\ RowKey(excelFile.rows[i]) = RowKey(excelFile.rows[j])
                /\ \A h \in 2..(i - 1) : RowKey(excelFile.rows[h]) # RowKey(excelFile.rows[i])) =>
           /\ \E n \in 1..Len(Records) : Records[n] = BasicRowContacto(excelFile.rows[i])
           /\ Cardinality({n \in 1..Len(Records) :
                             Records[n].ClaveCliente = RowKey(excelFile.rows[i])}) = 1
           /\ \E e \in 1..Len(loadErrors) :
                loadErrors[e].Row = j /\ loadErrors[e].Field = "claveCliente"

\* C1, the basic repository: a sheet with two rows of one key was loaded and
\* only the earlier row is a Record
C1_BasicRejectsLaterRow ==
  /\ variant = "basic" /\ Loaded
  /\ Len(excelFile.rows) = 3
  /\ RowKey(excelFile.rows[2]) = 1 /\ RowKey(excelFile.rows[3]) = 1
  /\ excelFile.rows[2] # excelFile.rows[3]
  /\ Records = <<BasicRowContacto(excelFile.rows[2])>>
  /\ Len(loadErrors) = 1

\* ------------------------------------------------------------------ C2

\* C2: from a store loaded with unique keys, after any sequence of create,
\* update, delete and reload the collection holds at most one Record per key,
\* with the key index active or not.
C2_AtMostOneRecordPerKey ==
  \A k \in InputKeys :
    Cardinality({i \in 1..Len(Records) : Records[i].ClaveCliente = k}) <= 1

\* ------------------------------------------------------------------ C3

\* the file's rows for a collection, written out cell by cell
RowsFor(cs) ==
  [i \in 1..(Len(cs) + 1) |->
     IF i = 1 THEN HeaderRow
     ELSE <<Itoa(cs[i - 1].ClaveCliente), cs[i - 1].Nombre, cs[i - 1].Correo,
            cs[i - 1].TelefonoContacto>>]

\* a record with key k is in the collection
InCollection(k) == \E i \in 1..Len(Records) : Records[i].ClaveCliente = k

\* C3: create with a key that is already in the collection fails with
\* Conflict, leaves the collection (contents, order, length) as it was and
\* writes no file, in both variants and at every collection size.
C3_CreateExistingKeyRefused ==
  [][\A c \in InputContactos, saveOk \in BOOLEAN, slack \in 0..MaxSlack :
       (InCollection(c.ClaveCliente) /\ Create(c, saveOk, slack)) =>
         /\ last'.err = "Conflict"
         /\ ~last'.saveCalled
         /\ Records' = Records
         /\ excelFile' = excelFile]_vars

\* ------------------------------------------------------------------ C4

\* C4: update of an absent key fails with NotFound and changes nothing; when
\* the key is present and update returns success, getByKey, getAll and the
\* file hold the new values for the key and every other record is as before,
\* also with the index active and the collection grown by creates since the
\* index was built.
C4_UpdateReplacesInPlace ==
  [][\A c \in InputContactos, saveOk \in BOOLEAN :
       Update(c, saveOk) =>
         IF ~InCollection(c.ClaveCliente)
         THEN /\ last'.err = "NotFound"
              /\ Records' = Records
              /\ excelFile' = excelFile
         ELSE last'.err = "nil" =>
                /\ GetByID(c.ClaveCliente)' = [found |-> TRUE, val |-> c]
                /\ GetAll' = [Records EXCEPT ![FirstAt(Records, c.ClaveCliente)] = c]
                /\ excelFile'.rows = RowsFor(GetAll')]_vars

\* ------------------------------------------------------------------ C5

\* C5: delete of a key that is not in the collection fails with NotFound and
\* leaves the collection, the indices and the file as they were; no save is
\* made.
C5_DeleteAbsentKeyRefused ==
  [][\A k \in InputKeys, saveOk \in BOOLEAN :
       (~InCollection(k) /\ Delete(k, saveOk)) =>
         /\ last'.err = "NotFound"
         /\ ~last'.saveCalled
         /\ Records' = Records
         /\ indiceClaveCliente' = indiceClaveCliente
         /\ indiceCorreo' = indiceCorreo
         /\ excelFile' = excelFile]_vars

\* C5, reached: a delete was refused for a key the collection lacks while the
\* key index, built before a reload, still held the key
C5_RefusedWithKeyInIndex ==
  /\ last.op = "delete" /\ last.err = "NotFound"
  /\ ~InCollection(last.key)
  /\ ~indiceClaveCliente.nil /\ HasKey(indiceClaveCliente, last.key)

\* ------------------------------------------------------------------ C6

\* C6: create with a key absent from the collection succeeds; afterwards the
\* collection is the previous one with the new record appended last, every
\* earlier record at its position with its values, and the file is rewritten
\* before create returns.
C6_CreateAppendsLast ==
  [][\A c \in InputContactos, slack \in 0..MaxSlack :
       (~InCollection(c.ClaveCliente) /\ Create(c, TRUE, slack)) =>
         /\ last'.err = "nil"
         /\ Records' = Append(Records, c)
         /\ last'.saveCalled
         /\ excelFile'.rows = RowsFor(Append(Records, c))]_vars

\* ------------------------------------------------------------------ C7

\* create, update or delete has just returned success
Succeeded == last.op \in {"create", "update", "delete"} /\ last.err = "nil"

\* C7: whenever create, update or delete returns success, the file's data
\* rows are exactly the in-memory collection, one row per Record in order.
C7_FileIsCollectionAfterSuccess ==
  Succeeded =>
    /\ Len(excelFile.rows) = Len(Records) + 1
    /\ \A i \in 1..Len(Records) :
         /\ ~Atoi(excelFile.rows[i + 1][1]).err
         /\ Atoi(excelFile.rows[i + 1][1]).val = Records[i].ClaveCliente
         /\ excelFile.rows[i + 1][2] = Records[i].Nombre
         /\ excelFile.rows[i + 1][3] = Records[i].Correo
         /\ excelFile.rows[i + 1][4] = Records[i].TelefonoContacto

\* C7, reached: an update succeeded on a collection of two or more records
\* after an earlier save had failed
C7_UpdateSavedAfterFailure ==
  /\ last.op = "update" /\ last.err = "nil"
  /\ Len(Records) >= 2
  /\ faults > 0

\* ------------------------------------------------------------------ C8

\* criteria the results are compared on: a key, a key with a name, a part of
\* an email, a whole email, a part of a name, a key that is no number with
\* a name, a part of a phone
CheckCriteria ==
  { Criteria(<<"1">>, <<>>, <<>>, <<>>),
    Criteria(<<"1">>, Bo, <<>>, <<>>),
    Criteria(<<>>, <<>>, <<"@", "x">>, <<>>),
    Criteria(<<>>, <<>>, MailA, <<>>),
    Criteria(<<>>, <<"a", "n">>, <<>>, <<>>),
    Criteria(<<"x">>, Ana, <<>>, <<>>),
    Criteria(<<>>, <<>>, <<>>, <<"5", "5", "5">>) }

\* the set of the records of a result
SetOf(cs) == {cs[i] : i \in 1..Len(cs)}

\* C8: for any criteria and any collection size the optimized repository's
\* Search returns the same set of Records as the linear scan of the same
\* collection, also for a key criterion combined with others and for an
\* email criterion that is part of a stored email.
C8_SearchEqualsLinearScan ==
  variant = "optimized" =>
    \A cr \in CheckCriteria :
      SetOf(SearchResult(cr)) = SetOf(sequentialSearch(Records, cr))

\* ------------------------------------------------------------------ C9

\* the record c satisfies every criterion of cr that is given
Satisfies(c, cr) ==
  /\ cr.ClaveCliente = <<>> \/
       (~Atoi(cr.ClaveCliente).err /\ Atoi(cr.ClaveCliente).val = c.ClaveCliente)
  /\ cr.Nombre = <<>> \/ Contains(ToLower(c.Nombre), ToLower(cr.Nombre))
  /\ cr.Correo = <<>> \/ Contains(ToLower(c.Correo), ToLower(cr.Correo))
  /\ cr.Telefono = <<>> \/ Contains(c.TelefonoContacto, cr.Telefono)

\* C9: search returns exactly the records that satisfy every given criterion
\* at once; a key criterion that is no integer yields no match whatever the
\* other criteria are.
C9_SearchReturnsExactlyMatches ==
  \A cr \in CheckCriteria :
    /\ SetOf(SearchResult(cr)) = {c \in SetOf(Records) : Satisfies(c, cr)}
    /\ (cr.ClaveCliente # <<>> /\ Atoi(cr.ClaveCliente).err) => SearchResult(cr) = <<>>

\* ------------------------------------------------------------------ C10

\* C10: for every key, after any sequence of create, update, delete and
\* reload, exists(k) is true iff a record with key k is in the collection,
\* and getByKey(k) returns that record's current values, or NotFound.
C10_LookupsEqualLinearScan ==
  \A k \in InputKeys :
    /\ ExistsByID(k) <=> InCollection(k)
    /\ GetByID(k).found <=> InCollection(k)
    /\ InCollection(k) => GetByID(k).val = Records[FirstAt(Records, k)]

\* ------------------------------------------------------------------ C11

\* C11: a result held in the search cache is the result a scan of the
\* current collection gives for the same criteria, in every state where the
\* search made afresh would give that scan: no write leaves behind, or lets
\* a concurrent Search bring back, a result computed before the write.
C11_CachedResultIsCurrent ==
  \A cr \in InputCriteria :
    (/\ generateCacheKey(cr) \in DOMAIN searchCache
     /\ OptSearchMiss(cr) = sequentialSearch(Records, cr))
      => searchCache[generateCacheKey(cr)] = sequentialSearch(Records, cr)

\* ------------------------------------------------------------------ C12

\* C12: the records a scan reads are the collection as it stood when the
\* scan began or as it stands when the scan ends, never a mixture left by a
\* write that ran during the scan.
C12_ScanSeesOneCollection ==
  last.op = "scan" => (last.seen = last.before \/ last.seen = Records)

\* ------------------------------------------------------------------ C13

\* C13: after a ReloadExcel that returned no error, GetByID(k) finds a
\* record exactly when the reloaded collection holds one with key k, and
\* the record it returns has key k.
C13_LookupRebuiltAfterReload ==
  (last.op = "reload" /\ last.err = "nil") =>
    \A k \in InputKeys :
      /\ GetByID(k).found <=> InCollection(k)
      /\ GetByID(k).found => GetByID(k).val.ClaveCliente = k

\* ------------------------------------------------------------------ C14

\* C14: after a load or reload that returned no error, the collection, the
\* RowError list and the RawRowSnapshot list are exactly what parsing the
\* file now on disk produces: nothing of the previous load or of earlier
\* calls is kept.
C14_LoadReplacesEverything ==
  Loaded =>
    /\ Records = ParseRows(variant, excelFile.rows).contactos
    /\ loadErrors = ParseRows(variant, excelFile.rows).loadErrors
    /\ invalidRowsData = ParseRows(variant, excelFile.rows).invalidRowsData

\* a reload has left one record, one error and one snapshot in a repository
\* whose earlier load had brought enough records for an index
C14_ReloadedOverEarlierLoad ==
  /\ last.op = "reload"
  /\ last.err = "nil"
  /\ variant = "optimized"
  /\ ~indiceClaveCliente.nil
  /\ Len(Records) = 1
  /\ Len(loadErrors) = 1
  /\ Len(invalidRowsData) = 1

\* ------------------------------------------------------------------ C15

\* a row all of whose cells are blank
BlankRow(row) == \A j \in 1..Len(row) : TrimSpace(row[j]) = <<>>

\* the rows of the sheet below the header that are not blank
ProcessedRows(rows) == {i \in 2..Len(rows) : ~BlankRow(rows[i])}

\* C15: in the report made after a load, validRows + invalidRows = totalRows,
\* and totalRows is the number of rows of the file below the header that are
\* not fully blank.
C15_ReportCountsAddUp ==
  Loaded =>
    /\ GetExcelValidationReport.ValidRows + GetExcelValidationReport.InvalidRows
         = GetExcelValidationReport.TotalRows
    /\ GetExcelValidationReport.TotalRows = Cardinality(ProcessedRows(excelFile.rows))

\* ------------------------------------------------------------------ C16

\* the rows of the loaded sheet that have a RowError
ErrorRows == {loadErrors[e].Row : e \in 1..Len(loadErrors)}

\* C16: after a load every row below the header has one of two outcomes. A
\* row with a RowError has exactly one RawRowSnapshot, with hasErrors set,
\* and no Record: there are as many snapshots as rows with errors. A row
\* without a RowError has a Record, unless it is blank: there are as many
\* Records as rows that are not blank and have no error.
C16_RecordOrErrorWithSnapshot ==
  Loaded =>
    /\ ErrorRows \subseteq 2..Len(excelFile.rows)
    /\ Len(invalidRowsData) = Cardinality(ErrorRows)
    /\ \A d \in 1..Len(invalidRowsData) : invalidRowsData[d].HasErrors
    /\ Len(Records) = Cardinality(ProcessedRows(excelFile.rows) \ ErrorRows)

\* ------------------------------------------------------------------ C17

\* 1 for a check that fails
Fails(b) == IF b THEN 1 ELSE 0

\* the checks a row of four cells fails, given the records accepted from the
\* rows above it: a blank field fails its empty-field check only; a field
\* that is not blank fails each of its other checks it does not pass
FailingChecks(row, accepted) ==
  LET claveStr == TrimSpace(row[1])
      nombre   == TrimSpace(row[2])
      correo   == TrimSpace(row[3])
      telefono == TrimSpace(row[4])
      parsed   == Atoi(claveStr)
  IN    Fails(claveStr = <<>>) + Fails(nombre = <<>>)
      + Fails(correo = <<>>) + Fails(telefono = <<>>)
      + Fails(claveStr # <<>> /\ parsed.err)
      + Fails(claveStr # <<>> /\ ~parsed.err /\ parsed.val <= 0)
      + Fails(claveStr # <<>> /\ ~parsed.err
              /\ \E j \in 1..Len(accepted) : accepted[j].ClaveCliente = parsed.val)
      + Fails(telefono # <<>> /\ Len(telefono) # 10)
      + Fails(telefono # <<>> /\ \E j \in 1..Len(telefono) : ~IsDigit(telefono[j]))
      + Fails(correo # <<>> /\ ~Contains(correo, <<"@">>))

\* the RowErrors of the load for row i
ErrorsOfRow(i) == {e \in 1..Len(loadErrors) : loadErrors[e].Row = i}

\* C17: after a load, every row of four cells has one RowError for each
\* check it fails: empty fields, key (integer, above 0, not a duplicate),
\* telephone (length, digits) and email.
C17_EveryFailingCheckHasItsError ==
  Loaded =>
    \A i \in 2..Len(excelFile.rows) :
      Len(excelFile.rows[i]) = 4 =>
        Cardinality(ErrorsOfRow(i))
          = FailingChecks(excelFile.rows[i],
                          ParseRows(variant, SubSeq(excelFile.rows, 1, i - 1)).contactos)

\* ------------------------------------------------------------------ C18

\* a telephone of exactly ten ASCII digits
TenDigits(t) == Len(t) = 10 /\ \A j \in 1..Len(t) : IsDigit(t[j])

\* C18: after a load every Record has a key above 0, a trimmed name that is
\* not empty, an email with an @ and a telephone of exactly ten digits; and
\* a row of four cells whose telephone has ten characters that are not all
\* digits has a RowError.
C18_LoadedRecordsAreValid ==
  Loaded =>
    /\ \A i \in 1..Len(Records) :
         /\ Records[i].ClaveCliente > 0
         /\ Records[i].Nombre # <<>>
         /\ TrimSpace(Records[i].Nombre) = Records[i].Nombre
         /\ Contains(Records[i].Correo, <<"@">>)
         /\ TenDigits(Records[i].TelefonoContacto)
    /\ \A i \in 2..Len(excelFile.rows) :
         (/\ Len(excelFile.rows[i]) = 4
          /\ Len(TrimSpace(excelFile.rows[i][4])) = 10
          /\ ~TenDigits(TrimSpace(excelFile.rows[i][4])))
           => ErrorsOfRow(i) # {}

\* ------------------------------------------------------------------ C19

\* the RawRowSnapshot of a short row: its partial values, one error
ShortRowSnapshot(row) == RowData(OptCells(row), TRUE, 1)

\* C19: after a load, a row of fewer than four cells that is blank has no
\* RowError and no RawRowSnapshot (a snapshot of four empty values can then
\* only come from a blank row of four cells); one that is not blank has
\* exactly one RowError, the structural one, and its RawRowSnapshot with the
\* partial values, hasErrors set and errorCount 1.
C19_ShortRowHandledByContent ==
  Loaded =>
    \A i \in 2..Len(excelFile.rows) :
      Len(excelFile.rows[i]) < 4 =>
        IF BlankRow(excelFile.rows[i])
        THEN /\ ErrorsOfRow(i) = {}
             /\ (\A j \in 2..Len(excelFile.rows) :
                    Len(excelFile.rows[j]) >= 4 => ~BlankRow(excelFile.rows[j]))
                  => \A d \in 1..Len(invalidRowsData) :
                       invalidRowsData[d] # ShortRowSnapshot(excelFile.rows[i])
        ELSE /\ Cardinality(ErrorsOfRow(i)) = 1
             /\ \A e \in ErrorsOfRow(i) : loadErrors[e].Field = "estructura"
             /\ \E d \in 1..Len(invalidRowsData) :
                  invalidRowsData[d] = ShortRowSnapshot(excelFile.rows[i])

\* ------------------------------------------------------------------ C20

\* C20: a reload of the file that Create, Update or Delete has just saved,
\* when it reads no invalid row, leaves the collection as it was: the same
\* records with the same fields in the same order.
C20_SaveThenReloadIsIdentity ==
  [][(/\ Succeeded
      /\ last'.op = "reload"
      /\ last'.err = "nil"
      /\ excelFile' = excelFile
      /\ loadErrors' = <<>>)
       => Records' = Records]_vars

\* ------------------------------------------------------------------ C21

\* C21: a reload without error that follows a load without error of the
\* same, unchanged sheet leaves the collection, the RowError list, the
\* RawRowSnapshot list and the validation report as that load left them.
C21_ReloadTwiceIsSame ==
  [][(last'.op = "reload" /\ last'.err = "nil" /\ last'.again)
       => /\ Records' = Records
          /\ loadErrors' = loadErrors
          /\ invalidRowsData' = invalidRowsData
          /\ GetExcelValidationReport' = GetExcelValidationReport]_vars

\* a second reload of an unchanged sheet that holds valid and invalid rows
C21_ReloadedAgainWithErrors ==
  /\ last.op = "reload"
  /\ last.err = "nil"
  /\ last.again
  /\ Records # <<>>
  /\ loadErrors # <<>>
  /\ invalidRowsData # <<>>

\* ------------------------------------------------------------------ C22

C23_FailedReloadKeepsCollection ==
  [][(last'.op = "reload" /\ last'.err # "nil")
       => /\ Records' = Records
          /\ GetAll' = GetAll
          /\ \A k \in InputKeys :
               /\ GetByID(k)' = GetByID(k)
               /\ ExistsByID(k)' = ExistsByID(k)
          /\ \A cr \in CheckCriteria : SearchResult(cr)' = SearchResult(cr)]_vars

\* a reload has failed on a repository that holds records
C23_ReloadFailedWithRecords ==
  /\ last.op = "reload"
  /\ last.err # "nil"
  /\ Len(Records) >= 2

\* ------------------------------------------------------------------ C24

NthErrorRow(k) ==
  CHOOSE r \in ErrorRows : Cardinality({q \in ErrorRows : q < r}) = k - 1

\* C25: every RawRowSnapshot of the invalid-row list has HasErrors set and
\* an ErrorCount equal to the number of RowErrors the error list holds for
\* the row it was taken from (the k-th snapshot is of the k-th row with
\* errors).
C25_SnapshotCountsItsErrors ==
  \A k \in 1..Len(invalidRowsData) :
    /\ invalidRowsData[k].HasErrors
    /\ k <= Cardinality(ErrorRows)
    /\ invalidRowsData[k].ErrorCount = Cardinality(ErrorsOfRow(NthErrorRow(k)))

\* a loaded sheet with a snapshot of a row that has two RowErrors
C25_SnapshotOfRowWithTwoErrors ==
  /\ Loaded
  /\ \E k \in 1..Len(invalidRowsData) : invalidRowsData[k].ErrorCount = 2

\* ------------------------------------------------------------------ C26

\* a row of four cells whose key cell is not empty and is not an integer
BadKeyRow(row) ==
  /\ Len(row) = 4
  /\ TrimSpace(row[1]) # <<>>
  /\ Atoi(TrimSpace(row[1])).err

\* after a load, with the first row below the header numbered `first`:
\* every RowError carries the number of a row below the header, and every
\* such row whose key is not an integer has a RowError carrying its number
ErrorRowsNumberedFrom(first) ==
  Loaded =>
    /\ \A e \in 1..Len(loadErrors) :
         loadErrors[e].Row - first + 2 \in 2..Len(excelFile.rows)
    /\ \A i \in 2..Len(excelFile.rows) :
         BadKeyRow(excelFile.rows[i]) => ErrorsOfRow(i - 2 + first) # {}

\* C26: the row number of a RowError is the row's number in the sheet,
\* counted from 1 with the header as row 1: an error on the first row below
\* the header carries 2, and one on the n-th carries n + 1.
C26_RowNumberCountsTheHeader == ErrorRowsNumberedFrom(2)

\* C26 as claimed: the row number of a RowError is counted from 1 with the
\* header excluded: an error on the first row below the header carries 1,
\* and one on the n-th carries n.
C26_RowNumberExcludesTheHeader == ErrorRowsNumberedFrom(1)

\* a loaded sheet of two rows below the header, the first with a key that is
\* not an integer and the second without an error
C26_ErrorOnFirstDataRowOfTwo ==
  /\ Loaded
  /\ Len(excelFile.rows) = 3
  /\ BadKeyRow(excelFile.rows[2])
  /\ ErrorRows = {2}

\* ------------------------------------------------------------------ C27

C28_SaveDropsInvalidRows ==
  [][/\ last'.op \in {"create", "update", "delete"}
          => loadErrors' = loadErrors /\ invalidRowsData' = invalidRowsData
     /\ (last'.op \in {"create", "update", "delete"} /\ last'.err = "nil")
          => excelFile'.rows = SaveRows(Records')
     /\ (Succeeded /\ last'.op = "reload" /\ last'.err = "nil")
          => /\ loadErrors' = <<>>
             /\ invalidRowsData' = <<>>
             /\ GetExcelValidationReport'.InvalidRows = 0
             /\ GetExcelValidationReport'.Errors = <<>>]_vars

\* a write has succeeded on a sheet that was loaded with an invalid row: the
\* file holds the Records only, the RowErrors of the load are still held
C28_SavedOverInvalidRows ==
  /\ Succeeded
  /\ loadErrors # <<>>
  /\ Len(excelFile.rows) = Len(Records) + 1
  /\ Records # <<>>

\* ------------------------------------------------------------------ C29

\* the keys of a collection, in order
KeysOf(cs) == [i \in 1..Len(cs) |-> cs[i].ClaveCliente]

\* C29: UpdateContacto never changes the keys of the collection, and when it
\* ends with a validation error or NotFound it leaves the collection and
\* the file as they were.
C29_UpdateKeepsKeys ==
  [][last'.op = "update"
       => /\ KeysOf(Records') = KeysOf(Records)
          /\ last'.err \in {"Validation", "NotFound"}
               => Records' = Records /\ excelFile' = excelFile]_vars

\* ------------------------------------------------------------------ C30

\* C30: the list GetAll returned holds, when its caller reads it after other
\* calls have run, the records it held when GetAll returned.
C30_GetAllIsSnapshot ==
  last.op = "scan" => last.seen = last.before

\* ------------------------------------------------------------------ C31

\* C31: criteria that differ have different cache keys, so that what Search
\* returns for criteria is what it computes for those criteria: with one
\* caller at a time, never the cached result of other criteria.
C31_SearchAnswersItsOwnQuery ==
  \A cr \in KeyCriteria : SearchResult(cr) = OptSearchMiss(cr)

\* ------------------------------------------------------------------ C32

\* C32: when the optimized repository has its indices and create, update or
\* delete has returned success, every entry of the email index gives a
\* record of the collection whose lowercased email is the entry's key, and
\* the lowercased email of every record of the collection has an entry.
C32_EmailIndexAgrees ==
  (variant = "optimized" /\ ~indiceCorreo.nil /\ Succeeded) =>
    /\ \A e \in DOMAIN indiceCorreo.map :
         /\ Deref(heap, indiceCorreo.map[e]) \in SetOf(Records)
         /\ ToLower(Deref(heap, indiceCorreo.map[e]).Correo) = e
    /\ \A i \in 1..Len(Records) : HasKey(indiceCorreo, ToLower(Records[i].Correo))

\* ------------------------------------------------------------------ C33

\* C33: a DELETE request for a key above 0 that the service does not find
\* in the store gets the NotFound response.
C33_DeleteAbsentIsNotFound ==
  (last.op = "delete" /\ "status" \in DOMAIN last /\ last.err = "NotFound")
    => LastDeleteResponse = "NotFound"

\* ------------------------------------------------------------------ C34

\* C34: of two CreateContacto requests that run side by side, the one whose
\* call of repo.Create comes when the collection already holds its key adds
\* no record.
C34_OneOfTwoCreatesAdds ==
  [][(/\ pending # <<>>
      /\ pending[1].op = "create"
      /\ pending' # pending
      /\ InCollection(pending[1].cs[1].ClaveCliente))
       => Records' = Records]_vars

\* ------------------------------------------------------------------ C35

\* create, update or delete has just returned the error of a failed save
SaveFailed == last.op \in {"create", "update", "delete"} /\ last.err = "SaveError"

C36_AcceptedRecordsLoadValid ==
  [][(Succeeded /\ last'.op = "reload" /\ last'.err = "nil")
       => /\ loadErrors' = <<>>
          /\ invalidRowsData' = <<>>
          /\ Len(Records') = Len(Records)
          /\ KeysOf(Records') = KeysOf(Records)]_vars

\* the sheet has been reloaded with a record the service created, whose
\* name was saved with white space around it
C36_ReloadedServiceRecord ==
  /\ last.op = "reload"
  /\ last.err = "nil"
  /\ loadErrors = <<>>
  /\ InCollection(MaxRows + 1)
  /\ \E i \in 2..Len(excelFile.rows) : excelFile.rows[i][2] = <<" ">> \o Ana \o <<" ">>

\* ------------------------------------------------------------------ C37

\* C37: a Delete that returns success has removed one record, one with its
\* key; the records before it and after it are as they were, in the order
\* they were in.
C37_DeleteRemovesOneInOrder ==
  [][(last'.op = "delete" /\ last'.err = "nil")
       => \E i \in 1..Len(Records) :
            /\ Records[i].ClaveCliente = last'.key
            /\ Records' = SubSeq(Records, 1, i - 1)
                            \o SubSeq(Records, i + 1, Len(Records))]_vars

\* the first of three records has been deleted: two records follow it
C37_DeletedBeforeTwoOthers ==
  /\ Succeeded
  /\ last.op = "delete"
  /\ Len(Records) = 2
  /\ \A i \in 1..2 : Records[i].ClaveCliente > last.key
  /\ Records[1] # Records[2]

\* ------------------------------------------------------------------ C38

\* goroutine p is inside a method of the repository
Busy(p) == pending # <<>> /\ pending[1].op = "locks" /\ pending[1].todo[p] # <<>>

\* goroutine p holds the lock
Holds(p, lock) == pending[1][lock].w = p \/ p \in pending[1][lock].r

\* no goroutine asks for a lock it holds, or for r.mu while it holds r.cacheMu
LockOrder ==
  \A p \in Procs :
    (Busy(p) /\ Head(pending[1].todo[p]).act = "lock")
      => /\ ~Holds(p, Head(pending[1].todo[p]).lock)
         /\ ~(Head(pending[1].todo[p]).lock = "mu" /\ Holds(p, "cacheMu"))

\* C38: no method of the optimized repository asks for r.mu while it holds
\* r.cacheMu or for a lock it holds, and every method a goroutine has
\* called returns, whatever the other goroutines call meanwhile.
C38_EveryCallReturns ==
  /\ []LockOrder
  /\ \A p \in Procs : Busy(p) ~> ~Busy(p)

\* a writer holds r.mu and waits in clearCache for r.cacheMu, which a Search
\* holds to read the cache
C38_WriterWaitsForCache ==
  /\ pending # <<>>
  /\ pending[1].op = "locks"
  /\ \E p \in Procs, q \in Procs :
       /\ pending[1].mu.w = p
       /\ pending[1].cacheMu.q = p
       /\ q \in pending[1].cacheMu.r

\* ------------------------------------------------------------------ C39

\* C39: a ReloadExcel that returns an error (the workbook cannot be opened
\* or has no sheets) leaves the RowError list and the RawRowSnapshot list as
\* they were, and the validation report after it as it was before it.
C39_FailedReloadKeepsErrors ==
  [][(last'.op = "reload" /\ last'.err # "nil")
       => /\ loadErrors' = loadErrors
          /\ invalidRowsData' = invalidRowsData
          /\ GetExcelValidationReport' = GetExcelValidationReport]_vars

====
